---- MODULE Spec2Model ----
(***************************************************************************)
(* Verification model of the chapter manager: the Chapter data model, the  *)
(* interactive edit operations (main.go), the HTML encoder                 *)
(* (generateChapterHTML and helpers), the regex decoder (parser.go) and    *)
(* the behaviour of the conditional-visibility script in the rendered      *)
(* page.                                                                   *)
(*                                                                         *)
(* Go strings are sequences of text atoms.  An atom is a single character  *)
(* ("<", "&", "Q", "1", ...) or a run of plain characters that contains    *)
(* none of the characters the code looks at ("Email Address").  A document *)
(* is a sequence whose elements are text atoms and markup tokens: a markup *)
(* token is a literal piece of the encoder's template.                     *)
(***************************************************************************)
EXTENDS Integers, Sequences, FiniteSets, TLC

VARIABLES ch, sel, edits, lastOp, before, content, dec, pc, checked, hidden,
          sessions, files, batch

vars == <<ch, sel, edits, lastOp, before, content, dec, pc, checked, hidden,
          sessions, files, batch>>

\* the variables of the storage: the editors' sessions, the directory, the batch decode
store == <<sessions, files, batch>>

-----------------------------------------------------------------------------
(* Bounds *)

MaxQ == 3
MaxOpts == 2
MaxEdits == 3
MaxLen == 2
MaxSessionEdits == 1
MaxTitleLen == 3

-----------------------------------------------------------------------------
(* Strings *)

Spanish == <<"es">>
English == <<"en">>
Radio == "radio"
Checkbox == "checkbox"

Si == <<"Si">>
No == <<"No">>
Yes == <<"Yes">>

DigitAtoms == <<"0", "1", "2", "3", "4", "5", "6", "7", "8", "9">>

IsDigit(a) == \E d \in 1..10 : DigitAtoms[d] = a

DigitVal(a) == (CHOOSE d \in 1..10 : DigitAtoms[d] = a) - 1

\* fmt.Sprintf("%d", n) for n >= 0
RECURSIVE Digits(_)
Digits(n) == IF n < 10 THEN <<DigitAtoms[n + 1]>>
             ELSE Digits(n \div 10) \o <<DigitAtoms[(n % 10) + 1]>>

\* strconv.Atoi: -1 stands for the error result (no sign atoms in the model)
RECURSIVE AtoiAcc(_, _)
AtoiAcc(s, acc) == IF s = <<>> THEN acc
                   ELSE IF IsDigit(Head(s)) THEN AtoiAcc(Tail(s), acc * 10 + DigitVal(Head(s)))
                   ELSE -1

Atoi(s) == IF s = <<>> THEN -1 ELSE AtoiAcc(s, 0)

\* the text of a sequence of atoms as one string, to embed in a markup token
RECURSIVE Join(_)
Join(s) == IF s = <<>> THEN "" ELSE Head(s) \o Join(Tail(s))

\* strings.Index(s, a) for a one-atom needle, 1-based, 0 when absent
IndexOf(s, a) == IF \E i \in 1..Len(s) : s[i] = a
                 THEN CHOOSE i \in 1..Len(s) : s[i] = a /\ \A j \in 1..(i - 1) : s[j] # a
                 ELSE 0

IsSpace(a) == a \in {" ", "\n"}

RECURSIVE TrimLeft(_)
TrimLeft(s) == IF s # <<>> /\ IsSpace(Head(s)) THEN TrimLeft(Tail(s)) ELSE s

RECURSIVE TrimRight(_)
TrimRight(s) == IF s # <<>> /\ IsSpace(s[Len(s)]) THEN TrimRight(SubSeq(s, 1, Len(s) - 1)) ELSE s

TrimSpace(s) == TrimRight(TrimLeft(s))

\* strings.ToUpper on the atoms an id is made of
UpperAtom(a) == IF a = "q" THEN "Q" ELSE IF a = "x" THEN "X" ELSE IF a = "y" THEN "Y" ELSE a

ToUpper(s) == [i \in 1..Len(s) |-> UpperAtom(s[i])]

QID(n) == <<"q">> \o Digits(n)

QPrefix(n) == <<"Q">> \o Digits(n) \o <<":", " ">>

-----------------------------------------------------------------------------
(* models.go.  The default texts are plain runs; their accented letters and *)
(* the check mark are written without the accent or left out.              *)

ChapterLabel(lang) == IF lang = English THEN <<"Chapter">> ELSE <<"Capitulo">>

TitleSuffix(lang) == IF lang = English THEN <<"After watching the video">>
                     ELSE <<"Despues de ver el video">>

NoQuestions == <<>>

LanguageDefaults(lang) ==
    IF lang = English
    THEN [Number |-> 0, Language |-> English, Title |-> <<>>,
          Heading |-> <<"After watching the video, complete this exercise:">>,
          Questions |-> NoQuestions,
          Conversation |-> [Title |-> <<"Discuss:">>, Label |-> <<>>,
                            Placeholder |-> <<"Write your answer here...">>],
          EmailLabel |-> <<"Email Address">>,
          EmailPlaceH |-> <<"example@email.com">>,
          SubmitText |-> <<"Submit Survey">>,
          ResetText |-> <<"Clear">>,
          SuccessMsg |-> <<"Survey submitted successfully!">>,
          SummaryTitle |-> <<"Summary of your answers">>,
          ChapterName |-> <<>>, HasCustomCSS |-> FALSE, HasCustomJS |-> FALSE]
    ELSE [Number |-> 0, Language |-> Spanish, Title |-> <<>>,
          Heading |-> <<"Despues de ver el video, realiza este ejercicio:">>,
          Questions |-> NoQuestions,
          Conversation |-> [Title |-> <<"Conversen:">>, Label |-> <<>>,
                            Placeholder |-> <<"Escribe tu respuesta aqui...">>],
          EmailLabel |-> <<"Correo Electronico">>,
          EmailPlaceH |-> <<"ejemplo@correo.com">>,
          SubmitText |-> <<"Enviar Encuesta">>,
          ResetText |-> <<"Limpiar">>,
          SuccessMsg |-> <<"Encuesta enviada correctamente!">>,
          SummaryTitle |-> <<"Resumen de tus respuestas">>,
          ChapterName |-> <<>>, HasCustomCSS |-> FALSE, HasCustomJS |-> FALSE]

NewOption(label) == [Value |-> label, Label |-> label]

LabelsToOptions(labels) == [i \in 1..Len(labels) |-> NewOption(labels[i])]

-----------------------------------------------------------------------------
(* main.go: edit operations *)

replaceQuestionPrefix(title, newNum) ==
    LET idx == IndexOf(title, ":")
    IN  IF idx = 0 THEN title
        ELSE IF idx > 1 /\ title[1] = "Q"
             THEN <<"Q">> \o Digits(newNum) \o SubSeq(title, idx, Len(title))
             ELSE title

QType(typeChoice) == IF typeChoice = "2" THEN Checkbox ELSE Radio

\* the Question built by addQuestion (main.go 417-453); the title is not empty
NewQuestion(nextNum, title, typeChoice, labels) ==
    [ID |-> QID(nextNum), Title |-> QPrefix(nextNum) \o title, Type |-> QType(typeChoice),
     Options |-> LabelsToOptions(labels), Required |-> TRUE, ConditionalOn |-> <<>>]

\* addQuestion with the id and prefix made from the count instead of the count + 1
addQuestion_SameNum(c, title, typeChoice, labels) ==
    IF TrimSpace(title) = <<>> THEN c
    ELSE [c EXCEPT !.Questions =
             Append(@, NewQuestion(Len(@), TrimSpace(title), typeChoice, labels))]

addQuestion(c, title, typeChoice, labels) ==
    IF TrimSpace(title) = <<>> THEN c
    ELSE [c EXCEPT !.Questions =
             Append(@, NewQuestion(Len(@) + 1, TrimSpace(title), typeChoice, labels))]

RemoveAt(s, idx) == SubSeq(s, 1, idx - 1) \o SubSeq(s, idx + 1, Len(s))

\* RenumberStep without the update of the conditional references
RenumberStep_KeepRefs(qs, i) ==
    [qs EXCEPT ![i].ID = QID(i), ![i].Title = replaceQuestionPrefix(qs[i].Title, i)]

\* RenumberStep without the assignment of the new id
RenumberStep_KeepID(qs, i) ==
    [qs EXCEPT ![i].Title = replaceQuestionPrefix(qs[i].Title, i)]

\* RenumberStep without the update of the title prefix
RenumberStep_KeepTitle(qs, i) ==
    [[j \in 1..Len(qs) |->
         IF qs[j].ConditionalOn = qs[i].ID
         THEN [qs[j] EXCEPT !.ConditionalOn = QID(i)] ELSE qs[j]] EXCEPT ![i].ID = QID(i)]

\* one iteration of the renumbering loop of removeQuestion, for the question at i
RenumberStep(qs, i) ==
    LET newID == QID(i)
        oldID == qs[i].ID
        refs  == [j \in 1..Len(qs) |->
                    IF qs[j].ConditionalOn = oldID
                    THEN [qs[j] EXCEPT !.ConditionalOn = newID] ELSE qs[j]]
    IN  [refs EXCEPT ![i].ID = newID, ![i].Title = replaceQuestionPrefix(qs[i].Title, i)]

RECURSIVE RenumberFrom(_, _)
RenumberFrom(qs, i) == IF i > Len(qs) THEN qs ELSE RenumberFrom(RenumberStep(qs, i), i + 1)

\* removeQuestion that clears the references to the removed question first
removeQuestion_ClearOrphans(c, idx) ==
    IF idx < 1 \/ idx > Len(c.Questions) THEN c
    ELSE [c EXCEPT !.Questions =
             RenumberFrom(RemoveAt([j \in 1..Len(@) |->
                                       IF @[j].ConditionalOn = @[idx].ID
                                       THEN [@[j] EXCEPT !.ConditionalOn = <<>>] ELSE @[j]], idx), 1)]

\* removeQuestion where a selection past the last question removes the last
removeQuestion_Clamp(c, idx) ==
    IF idx < 1 \/ Len(c.Questions) = 0 THEN c
    ELSE [c EXCEPT !.Questions =
             RenumberFrom(RemoveAt(@, IF idx > Len(@) THEN Len(@) ELSE idx), 1)]

\* removeQuestion with the 1-based selection idx (-1: not a number)
removeQuestion(c, idx) ==
    IF idx < 1 \/ idx > Len(c.Questions) THEN c
    ELSE [c EXCEPT !.Questions = RenumberFrom(RemoveAt(@, idx), 1)]

\* the question built by one pass of the loop of createChapter (main.go 617-662)
CreatedQuestion(qNum, in) ==
    [NewQuestion(qNum, in.title, in.typeChoice, in.labels) EXCEPT !.ConditionalOn = in.cond]

createChapter(lang, num, convLabel, ins) ==
    LET d == LanguageDefaults(lang)
    IN  [d EXCEPT !.Number = num, !.Language = lang,
                  !.Title = ChapterLabel(lang) \o <<" ">> \o Digits(num) \o <<" - ">> \o TitleSuffix(lang),
                  !.ChapterName = ChapterLabel(lang) \o <<" ">> \o Digits(num),
                  !.Conversation.Label = IF convLabel # <<>> THEN convLabel ELSE @,
                  !.Questions = [i \in 1..Len(ins) |-> CreatedQuestion(i, ins[i])]]

-----------------------------------------------------------------------------
(* The encoder: generateChapterHTML, generateQuestionHTML,                 *)
(* generateConditionalJS.  The markup tokens are the literal pieces of the *)
(* templates, with the white space between tags left out; a token that     *)
(* embeds an id is built from it with Join.                                *)

\* html.EscapeString
EscapeAtom(a) ==
    CASE a = "&"  -> <<"&", "amp;">>
      [] a = "<"  -> <<"&", "lt;">>
      [] a = ">"  -> <<"&", "gt;">>
      [] a = "\"" -> <<"&", "#34;">>
      [] a = "'"  -> <<"&", "#39;">>
      [] OTHER    -> <<a>>

RECURSIVE HtmlEscape(_)
HtmlEscape(s) == IF s = <<>> THEN <<>> ELSE EscapeAtom(Head(s)) \o HtmlEscape(Tail(s))

\* strings.ReplaceAll(s, `"`, `\"`)
RECURSIVE JsEscape(_)
JsEscape(s) == IF s = <<>> THEN <<>>
               ELSE (IF Head(s) = "\"" THEN <<"\\", "\"">> ELSE <<Head(s)>>) \o JsEscape(Tail(s))

\* the literal pieces of the templates of the three generators
Tok ==
    [Quote              |-> "\"",
     TitleTagOpen       |-> "<title>",
     TitleTagClose      |-> "</title>",
     LinkCss            |-> "<link rel=\"stylesheet\" href=\"survey.css\">",
     StyleBlock         |-> "<style>.checkbox-group {} .checkbox-option input[type=\"checkbox\"] {} .hidden {} .conditional-section {}</style>",
     BodyOpen           |-> "</head><body><div class=\"container\">",
     H1Open             |-> "<h1>",
     H1Close            |-> "</h1>",
     FormOpen           |-> "<form id=\"pollForm\">",
     PlainWrapper       |-> "<div class=\"question-section\">",
     CondWrapperOpen    |-> "<div class=\"question-section conditional-section hidden\" id=\"",
     TitleOpen          |-> "<div class=\"question-title\">",
     DivClose           |-> "</div>",
     OptionsOpen        |-> "<div class=\"options\">",
     OptionDivOpen      |-> "<div class=\"option\">",
     RadioInputTag      |-> "<input type=\"radio\"",
     CheckboxGroupOpen  |-> "<div class=\"checkbox-group\">",
     CheckboxOptionOpen |-> "<div class=\"checkbox-option\">",
     CheckboxInputTag   |-> "<input type=\"checkbox\"",
     RequiredAttr       |-> " required",
     InputEndLabelOpen  |-> "><label for=\"",
     LabelClose         |-> "</label>",
     ConvOpen           |-> "<!-- Conversation Section --><div class=\"question-section\">",
     TextInputOpen      |-> "<div class=\"text-input-section\">",
     ConvLabelOpen      |-> "<label for=\"conversation\" style=\"color: #666; font-size: 14px;\">",
     TextareaOpen       |-> "<textarea id=\"conversation\" name=\"conversation\" placeholder=\"",
     TextareaClose      |-> " required></textarea><div class=\"error-message\" id=\"textError\" style=\"display: none;\"></div></div></div>",
     EmailOpen          |-> "<!-- Email Section --><div class=\"question-section\">",
     EmailLabelOpen     |-> "<label for=\"email\">",
     EmailInputOpen     |-> "<input type=\"email\" id=\"email\" name=\"email\" placeholder=\"",
     EmailInputClose    |-> " required><div class=\"error-message\" id=\"emailError\" style=\"display: none;\"></div></div></div>",
     Recaptcha          |-> "<!-- reCAPTCHA --><div class=\"question-section\"><div class=\"g-recaptcha\"></div><div class=\"error-message\" id=\"recaptchaError\"></div></div>",
     ButtonsOpen        |-> "<!-- Buttons --><div class=\"button-group\">",
     SubmitOpen         |-> "<button type=\"submit\" class=\"submit-btn\" id=\"submitBtn\">",
     ResetOpen          |-> "<button type=\"reset\" class=\"reset-btn\" id=\"resetBtn\">",
     ButtonClose        |-> "</button>",
     FormClose          |-> "</div></form>",
     SuccessOpen        |-> "<!-- Success Message --><div class=\"success-message\" id=\"successMessage\">",
     Newline            |-> "\n",
     Indent             |-> " ",
     SummaryOpen        |-> "<!-- Summary Section --><div class=\"summary-section\" id=\"summarySection\" style=\"display: none;\">",
     SummaryTitleOpen   |-> "<h2 class=\"summary-title\">",
     H2Close            |-> "</h2>",
     SummaryClose       |-> "<div id=\"summaryContent\"></div></div></div>",
     CondScriptOpen     |-> "<script>// Handle conditional questions document.addEventListener('DOMContentLoaded', function() {",
     CondScriptClose    |-> "});</script>",
     MetaOpen           |-> "<script>// Define questions for this survey window.surveyQuestions = {",
     Comma              |-> ",",
     MetaMid            |-> "}; // Define the chapter name for this survey window.chapterName = \"",
     MetaClose          |-> ";</script>",
     DocTail            |-> "<script src=\"email.min.js\"></script><script>(function() { emailjs.init(); })();</script><script src=\"api.js\" async defer></script><script src=\"survey.js\"></script></body></html>"]

DocHead(lang) == "<!DOCTYPE html><html lang=\"" \o Join(lang) \o "\"><head><meta charset=\"UTF-8\">"

Comment(id) == "<!-- " \o Join(ToUpper(id)) \o " -->"
SectionIdClose(id) == Join(id) \o "-section\">"
IdAttr(optID) == " id=\"" \o Join(optID) \o "\""
NameValueAttr(id) == " name=\"" \o Join(id) \o "\" value=\""
ForAttrClose(optID) == Join(optID) \o "\">"

ListenerDecl(parentID, childID) ==
    "const " \o Join(parentID) \o "Radios = document.querySelectorAll('input[name=\"" \o Join(parentID)
    \o "\"]'); const " \o Join(childID) \o "Section = document.getElementById('" \o Join(childID)
    \o "-section'); const " \o Join(childID) \o "Inputs = document.querySelectorAll('#" \o Join(childID)
    \o "-section "
InputTypeSelector(inputType) == "input[type=\"" \o inputType \o "\"]"
\* the text of ListenerBody cut at every occurrence of }); (part_000 313-326)
ListenerBodyPieces(parentID, childID, yesValue) ==
    <<"'); " \o Join(parentID) \o "Radios.forEach(radio => { radio.addEventListener('change', function() { if (this.value === '"
      \o Join(yesValue) \o "') { " \o Join(childID) \o "Section.classList.remove('hidden'); } else { "
      \o Join(childID) \o "Section.classList.add('hidden'); " \o Join(childID)
      \o "Inputs.forEach(input => { input.checked = false; ",
      "});", " } ", "});", " ", "});">>
ListenerBody(parentID, childID, yesValue) == Join(ListenerBodyPieces(parentID, childID, yesValue))

EntryOpen(key) == Join(key) \o ": \""

\* a test that also looked at the flag the decoder sets
hasCheckboxQuestions_OrCustomCSS(c) ==
    c.HasCustomCSS \/ \E i \in 1..Len(c.Questions) : c.Questions[i].Type = Checkbox

hasCheckboxQuestions(c) == \E i \in 1..Len(c.Questions) : c.Questions[i].Type = Checkbox

hasConditionalQuestions(c) == \E i \in 1..Len(c.Questions) : c.Questions[i].ConditionalOn # <<>>

\* flatten a sequence of sequences
RECURSIVE Concat(_)
Concat(ss) == IF ss = <<>> THEN <<>> ELSE Head(ss) \o Concat(Tail(ss))

OptID(id, i) == id \o <<"_">> \o Digits(i)

\* Wrapper with the test of the conditional reference inverted
Wrapper_Inverted(q) == IF q.ConditionalOn = <<>> THEN <<Tok.CondWrapperOpen, SectionIdClose(q.ID)>>
                       ELSE <<Tok.PlainWrapper>>

\* the opening div of a question (part_000 223-230)
Wrapper(q) == IF q.ConditionalOn # <<>> THEN <<Tok.CondWrapperOpen, SectionIdClose(q.ID)>>
              ELSE <<Tok.PlainWrapper>>

\* the required attribute of the i-th radio input (part_000 241-244)
requiredAttr(q, i) == IF q.Required /\ i = 1 THEN <<Tok.RequiredAttr>> ELSE <<>>

RadioOption(q, i) ==
    <<Tok.OptionDivOpen, Tok.RadioInputTag, IdAttr(OptID(q.ID, i)), NameValueAttr(q.ID)>>
    \o HtmlEscape(q.Options[i].Value) \o <<Tok.Quote>> \o requiredAttr(q, i)
    \o <<Tok.InputEndLabelOpen, ForAttrClose(OptID(q.ID, i))>>
    \o HtmlEscape(q.Options[i].Label) \o <<Tok.LabelClose, Tok.DivClose>>

CheckboxOption(q, i) ==
    <<Tok.CheckboxOptionOpen, Tok.CheckboxInputTag, IdAttr(OptID(q.ID, i)), NameValueAttr(q.ID)>>
    \o HtmlEscape(q.Options[i].Value) \o <<Tok.Quote>>
    \o <<Tok.InputEndLabelOpen, ForAttrClose(OptID(q.ID, i))>>
    \o HtmlEscape(q.Options[i].Label) \o <<Tok.LabelClose, Tok.DivClose>>

generateQuestionHTML(q) ==
    <<Comment(q.ID)>> \o Wrapper(q)
    \o <<Tok.TitleOpen>> \o HtmlEscape(q.Title) \o <<Tok.DivClose>>
    \o (IF q.Type = Radio
        THEN <<Tok.OptionsOpen>> \o Concat([i \in 1..Len(q.Options) |-> RadioOption(q, i)]) \o <<Tok.DivClose>>
        ELSE IF q.Type = Checkbox
        THEN <<Tok.CheckboxGroupOpen>> \o Concat([i \in 1..Len(q.Options) |-> CheckboxOption(q, i)]) \o <<Tok.DivClose>>
        ELSE <<>>)
    \o <<Tok.DivClose>>

\* an affirmative value that ignored the language
yesValue_Spanish(lang) == Si

yesValue(lang) == IF lang = English THEN Yes ELSE Si

\* the input type the clearing selector of a listener names (part_000 303-306)
inputType(q) == IF q.Type = Checkbox THEN "checkbox" ELSE "checkbox"

\* the conditional pairs generateConditionalJS emits a listener for, in order
RECURSIVE ListenersOf(_, _)
ListenersOf(qs, lang) ==
    IF qs = <<>> THEN <<>>
    ELSE (IF Head(qs).ConditionalOn = <<>> THEN <<>>
          ELSE <<[parent |-> Head(qs).ConditionalOn, child |-> Head(qs).ID,
                  yes |-> yesValue(lang), inputType |-> inputType(Head(qs))]>>)
         \o ListenersOf(Tail(qs), lang)

Listeners(c) == ListenersOf(c.Questions, c.Language)

ListenerTokens(l) ==
    <<ListenerDecl(l.parent, l.child), InputTypeSelector(l.inputType),
      ListenerBody(l.parent, l.child, l.yes)>>

generateConditionalJS(c) ==
    <<Tok.CondScriptOpen>>
    \o Concat([k \in 1..Len(Listeners(c)) |-> ListenerTokens(Listeners(c)[k])])
    \o <<Tok.CondScriptClose>>

\* one entry of window.surveyQuestions (part_000 174-181)
MetaEntry(c, i) ==
    <<EntryOpen(c.Questions[i].ID)>> \o JsEscape(c.Questions[i].Title) \o <<Tok.Quote>>
    \o (IF i < Len(c.Questions) \/ c.Conversation.Label # <<>> THEN <<Tok.Comma>> ELSE <<>>)

MetaScript(c) ==
    <<Tok.MetaOpen>>
    \o Concat([i \in 1..Len(c.Questions) |-> MetaEntry(c, i)])
    \o (IF c.Conversation.Label # <<>>
        THEN <<EntryOpen(<<"conversation">>)>> \o JsEscape(c.Conversation.Label) \o <<Tok.Quote>>
        ELSE <<>>)
    \o <<Tok.MetaMid>> \o JsEscape(c.ChapterName) \o <<Tok.Quote, Tok.MetaClose>>

\* the success message as interpolated into the page (part_000 141-147)
SuccessText(c) == c.SuccessMsg

generateChapterHTML(c) ==
    <<DocHead(c.Language), Tok.TitleTagOpen>> \o HtmlEscape(c.Title) \o <<Tok.TitleTagClose, Tok.LinkCss>>
    \o (IF hasCheckboxQuestions(c) THEN <<Tok.StyleBlock>> ELSE <<>>)
    \o <<Tok.BodyOpen, Tok.H1Open>> \o HtmlEscape(c.Heading) \o <<Tok.H1Close, Tok.FormOpen>>
    \o Concat([i \in 1..Len(c.Questions) |-> generateQuestionHTML(c.Questions[i])])
    \o <<Tok.ConvOpen, Tok.TitleOpen>> \o HtmlEscape(c.Conversation.Title) \o <<Tok.DivClose, Tok.TextInputOpen, Tok.ConvLabelOpen>>
    \o HtmlEscape(c.Conversation.Label) \o <<Tok.LabelClose, Tok.TextareaOpen>>
    \o HtmlEscape(c.Conversation.Placeholder) \o <<Tok.Quote, Tok.TextareaClose>>
    \o <<Tok.EmailOpen, Tok.TitleOpen, Tok.EmailLabelOpen>> \o HtmlEscape(c.EmailLabel)
    \o <<Tok.LabelClose, Tok.DivClose, Tok.TextInputOpen, Tok.EmailInputOpen>>
    \o HtmlEscape(c.EmailPlaceH) \o <<Tok.Quote, Tok.EmailInputClose>>
    \o <<Tok.Recaptcha>>
    \o <<Tok.ButtonsOpen, Tok.SubmitOpen>> \o HtmlEscape(c.SubmitText) \o <<Tok.ButtonClose, Tok.ResetOpen>>
    \o HtmlEscape(c.ResetText) \o <<Tok.ButtonClose, Tok.FormClose>>
    \o <<Tok.SuccessOpen, Tok.Newline, Tok.Indent>> \o SuccessText(c) \o <<Tok.Newline, Tok.Indent, Tok.DivClose>>
    \o <<Tok.SummaryOpen, Tok.SummaryTitleOpen>> \o HtmlEscape(c.SummaryTitle) \o <<Tok.H2Close, Tok.SummaryClose>>
    \o (IF hasConditionalQuestions(c) THEN generateConditionalJS(c) ELSE <<>>)
    \o MetaScript(c)
    \o <<Tok.DocTail>>

-----------------------------------------------------------------------------
(* The decoder: parser.go.  A regular expression is matched on the         *)
(* elements of the document: a literal part of the expression is a markup  *)
(* token, a character class runs over text atoms.                          *)

AtomsOf(s) == {s[i] : i \in 1..Len(s)}

DefaultAtoms(lang) ==
    LET d == LanguageDefaults(lang)
    IN  AtomsOf(d.Heading) \cup AtomsOf(d.Conversation.Title) \cup AtomsOf(d.Conversation.Placeholder)
        \cup AtomsOf(d.EmailLabel) \cup AtomsOf(d.EmailPlaceH) \cup AtomsOf(d.SubmitText)
        \cup AtomsOf(d.ResetText) \cup AtomsOf(d.SuccessMsg) \cup AtomsOf(d.SummaryTitle)
        \cup AtomsOf(ChapterLabel(lang)) \cup AtomsOf(TitleSuffix(lang))

\* the atoms text is made of; every other element of a document is markup
TextAtoms ==
    {"x", "y", "Si", "No", "Yes", "Q", "q", ":", " ", " - ", "_", "\n", "\\",
     "&", "<", ">", "\"", "'", "amp;", "lt;", "gt;", "#34;", "#39;", "quot;"}
    \cup AtomsOf(DigitAtoms) \cup DefaultAtoms(Spanish) \cup DefaultAtoms(English)

\* [^<]
NotLT(e) == e \in TextAtoms /\ e # "<"

\* strings.Index(content[from:], tok): the first position >= from, 0 when absent
FirstIndex(doc, tok, from) ==
    IF \E i \in from..Len(doc) : doc[i] = tok
    THEN CHOOSE i \in from..Len(doc) : doc[i] = tok /\ \A j \in from..(i - 1) : doc[j] # tok
    ELSE 0

\* the last position of the run of [^<] elements starting at i (i-1: empty run)
RECURSIVE RunEnd(_, _)
RunEnd(doc, i) == IF i <= Len(doc) /\ NotLT(doc[i]) THEN RunEnd(doc, i + 1) ELSE i - 1

\* the last position of the run of \d elements starting at i
RECURSIVE DigitsEnd(_, _)
DigitsEnd(doc, i) == IF i <= Len(doc) /\ IsDigit(doc[i]) THEN DigitsEnd(doc, i + 1) ELSE i - 1

At(doc, i) == IF i >= 1 /\ i <= Len(doc) THEN doc[i] ELSE ""

\* open([^<]+)close, first match: the captured text, <<>> when there is none
CaptureContent(doc, open, close) ==
    LET ms == {i \in 1..Len(doc) : /\ doc[i] = open
                                   /\ RunEnd(doc, i + 1) >= i + 1
                                   /\ At(doc, RunEnd(doc, i + 1) + 1) = close}
    IN  IF ms = {} THEN <<>>
        ELSE LET i == CHOOSE m \in ms : \A o \in ms : m <= o
             IN  SubSeq(doc, i + 1, RunEnd(doc, i + 1))

\* open([^"]+)": the captured text of the first match, <<>> when there is none
CaptureAttr(doc, open) ==
    LET ms == {i \in 1..Len(doc) : /\ doc[i] = open
                                   /\ FirstIndex(doc, Tok.Quote, i + 1) > i + 1}
    IN  IF ms = {} THEN <<>>
        ELSE LET i == CHOOSE m \in ms : \A o \in ms : m <= o
             IN  SubSeq(doc, i + 1, FirstIndex(doc, Tok.Quote, i + 1) - 1)

\* a default is kept when the capture found nothing
OrDefault(captured, default) == IF captured # <<>> THEN captured ELSE default

\* the file name chapterFilePath gives a chapter (parser.go 337-340), as atoms
FilePrefix(lang) == IF lang = English THEN <<"chapter">> ELSE <<"capitulo">>

Pad2(num) == IF num < 10 THEN <<"0">> \o Digits(num) ELSE Digits(num)

chapterFileName(num, lang) == FilePrefix(lang) \o <<"_">> \o Pad2(num) \o <<".html">>

\* extractChapterNumber: the digits of `_(\d+)\.html$`, <<>> when it does not match
extractChapterNumber(filename) ==
    LET n == Len(filename)
        us == {i \in 1..(n - 2) : /\ filename[i] = "_"
                                  /\ DigitsEnd(filename, i + 1) = n - 1
                                  /\ filename[n] = ".html"}
    IN  IF us = {} THEN <<>>
        ELSE LET i == CHOOSE u \in us : \A o \in us : u <= o
             IN  SubSeq(filename, i + 1, n - 1)

extractBetweenTags(doc, openTag, closeTag) ==
    LET start == FirstIndex(doc, openTag, 1)
    IN  IF start = 0 THEN <<>>
        ELSE LET end == FirstIndex(doc, closeTag, start + 1)
             IN  IF end = 0 THEN <<>> ELSE TrimSpace(SubSeq(doc, start + 1, end - 1))

\* strings.ReplaceAll(s, "&" tail, to) for an entity of two atoms
RECURSIVE ReplaceEntity(_, _, _)
ReplaceEntity(s, tail, to) ==
    IF Len(s) < 2 THEN s
    ELSE IF s[1] = "&" /\ s[2] = tail
         THEN <<to>> \o ReplaceEntity(SubSeq(s, 3, Len(s)), tail, to)
         ELSE <<s[1]>> \o ReplaceEntity(Tail(s), tail, to)

decodeHTMLEntities(s) ==
    ReplaceEntity(ReplaceEntity(ReplaceEntity(ReplaceEntity(s, "quot;", "\""), "amp;", "&"), "lt;", "<"), "gt;", ">")

\* findConditionalParent
findConditionalParent(qID) ==
    LET numStr == IF qID # <<>> /\ Head(qID) = "q" THEN Tail(qID) ELSE qID
        num == Atoi(numStr)
    IN  IF num <= 1 THEN <<>> ELSE QID(num - 1)

\* the question-title matches of extractQuestions (parser.go 177-178):
\* position i starts a match of <div class="question-title">(Q\d+:[^<]+)</div>
TitleMatch(doc, i) ==
    /\ doc[i] = Tok.TitleOpen
    /\ At(doc, i + 1) = "Q"
    /\ DigitsEnd(doc, i + 2) >= i + 2
    /\ At(doc, DigitsEnd(doc, i + 2) + 1) = ":"
    /\ RunEnd(doc, DigitsEnd(doc, i + 2) + 2) >= DigitsEnd(doc, i + 2) + 2
    /\ At(doc, RunEnd(doc, DigitsEnd(doc, i + 2) + 2) + 1) = Tok.DivClose

TitleMatches(doc) == {i \in 1..Len(doc) : TitleMatch(doc, i)}

\* the elements of a set of positions in increasing order
RECURSIVE Sorted(_)
Sorted(S) == IF S = {} THEN <<>>
             ELSE LET m == CHOOSE a \in S : \A b \in S : a <= b
                  IN  <<m>> \o Sorted(S \ {m})

\* one match of the option expression of extractRadioOptions/extractCheckboxOptions
\* at position j of the section: the input tag, its id attribute, name="qID"
\* value="([^"]*)", the rest of the tag, <label for=...>([^<]+)</label>
OptionValueEnd(section, j) == FirstIndex(section, Tok.Quote, j + 3)

OptionLabelStart(section, j) ==
    LET k == OptionValueEnd(section, j) + 1
    IN  (IF At(section, k) = Tok.RequiredAttr THEN k + 1 ELSE k) + 2

OptionMatch(section, qID, tag, j) ==
    /\ section[j] = tag
    /\ At(section, j + 2) = NameValueAttr(qID)
    /\ OptionValueEnd(section, j) > 0
    /\ At(section, OptionLabelStart(section, j) - 2) = Tok.InputEndLabelOpen
    /\ RunEnd(section, OptionLabelStart(section, j)) >= OptionLabelStart(section, j)
    /\ At(section, RunEnd(section, OptionLabelStart(section, j)) + 1) = Tok.LabelClose

OptionValue(section, j) == SubSeq(section, j + 3, OptionValueEnd(section, j) - 1)

OptionLabel(section, j) ==
    SubSeq(section, OptionLabelStart(section, j), RunEnd(section, OptionLabelStart(section, j)))

OptionMatches(section, qID, tag) ==
    Sorted({j \in 1..Len(section) : OptionMatch(section, qID, tag, j)})

extractRadioOptions(section, qID) ==
    LET ms == OptionMatches(section, qID, Tok.RadioInputTag)
    IN  [k \in 1..Len(ms) |-> [Value |-> OptionValue(section, ms[k]),
                               Label |-> OptionLabel(section, ms[k])]]

extractCheckboxOptions(section, qID) ==
    LET ms == OptionMatches(section, qID, Tok.CheckboxInputTag)
    IN  [k \in 1..Len(ms) |-> [Value |-> decodeHTMLEntities(OptionValue(section, ms[k])),
                               Label |-> OptionLabel(section, ms[k])]]

\* strings.Contains(section, `type="checkbox"`), `type="radio"`, "required"
ContainsCheckboxType(section) ==
    \E i \in 1..Len(section) : section[i] \in {Tok.CheckboxInputTag, Tok.StyleBlock, InputTypeSelector("checkbox")}

ContainsRadioType(section) ==
    \E i \in 1..Len(section) : section[i] \in {Tok.RadioInputTag, InputTypeSelector("radio")}

ContainsRequired(section) ==
    \E i \in 1..Len(section) : section[i] \in {Tok.RequiredAttr, Tok.TextareaClose, Tok.EmailInputClose}

\* hiddenSectionRe.MatchString(content) (parser.go 206-207)
HasHiddenSection(doc, qID) ==
    \E i \in 1..(Len(doc) - 1) : doc[i] = Tok.CondWrapperOpen /\ doc[i + 1] = SectionIdClose(qID)

\* the section of the match at position m: up to the next match or the end
SectionEnd(doc, m) ==
    LET later == {o \in TitleMatches(doc) : o > m}
    IN  IF later = {} THEN Len(doc) ELSE (CHOOSE o \in later : \A l \in later : o <= l) - 1

\* the Question extractQuestions builds for the match at position m
ExtractedQuestion(doc, m) ==
    LET d       == DigitsEnd(doc, m + 2)
        title   == SubSeq(doc, m + 1, RunEnd(doc, d + 2))
        qID     == <<"q">> \o SubSeq(doc, m + 2, d)
        section == SubSeq(doc, m, SectionEnd(doc, m))
    IN  [ID |-> qID,
         Title |-> title,
         Type |-> IF ContainsCheckboxType(section) THEN Checkbox
                  ELSE IF ContainsRadioType(section) THEN Radio ELSE "",
         Options |-> IF ContainsCheckboxType(section) THEN extractCheckboxOptions(section, qID)
                     ELSE IF ContainsRadioType(section) THEN extractRadioOptions(section, qID)
                     ELSE <<>>,
         Required |-> ContainsRequired(section),
         ConditionalOn |-> IF HasHiddenSection(doc, qID) THEN findConditionalParent(qID) ELSE <<>>]

extractQuestions(doc) ==
    LET ms == Sorted(TitleMatches(doc))
    IN  [k \in 1..Len(ms) |-> ExtractedQuestion(doc, ms[k])]

\* detectConditionals: both expressions match the wrapper the encoder writes
detectConditionals(doc, questions) ==
    [i \in 1..Len(questions) |->
        IF HasHiddenSection(doc, questions[i].ID)
        THEN [questions[i] EXCEPT !.ConditionalOn = findConditionalParent(questions[i].ID)]
        ELSE questions[i]]

\* the first word the conversation title must begin with (parser.go 316)
ConvWords == {"Conversen:", "Discuss:", "Conversen", "Discuss", "Hablen", "Talk"}

ConvTitleMatch(doc, i) ==
    /\ doc[i] = Tok.TitleOpen
    /\ At(doc, i + 1) \in ConvWords
    /\ At(doc, RunEnd(doc, i + 1) + 1) = Tok.DivClose

extractConversation(doc, lang) ==
    LET conv == LanguageDefaults(lang).Conversation
        ts   == {i \in 1..Len(doc) : ConvTitleMatch(doc, i)}
        t    == CHOOSE m \in ts : \A o \in ts : m <= o
    IN  [Title |-> IF ts = {} THEN conv.Title ELSE SubSeq(doc, t + 1, RunEnd(doc, t + 1)),
         Label |-> OrDefault(CaptureContent(doc, Tok.ConvLabelOpen, Tok.LabelClose), conv.Label),
         Placeholder |-> OrDefault(CaptureAttr(doc, Tok.TextareaOpen), conv.Placeholder)]

\* successRe: class="success-message"[^>]*>\s*(.+?)\s*</div>, then TrimSpace;
\* <<FALSE, _>> when the expression does not match
SuccessCapture(doc) ==
    LET s == FirstIndex(doc, Tok.SuccessOpen, 1)
        e == IF s = 0 THEN 0 ELSE FirstIndex(doc, Tok.DivClose, s + 1)
        body == IF e = 0 THEN <<>> ELSE SubSeq(doc, s + 1, e - 1)
        text == TrimSpace(body)
    IN  IF s = 0 \/ e = 0 THEN <<FALSE, <<>>>>
        ELSE IF text = <<>>
             THEN <<\E i \in 1..Len(body) : body[i] = " ", <<>>>>
             ELSE <<\A i \in 1..Len(text) : text[i] # "\n", text>>

\* parseChapterFile: the error flag and the chapter
parseChapterFile(filename, doc, lang) ==
    LET d     == LanguageDefaults(lang)
        num   == Atoi(extractChapterNumber(filename))
        name  == CaptureAttr(doc, Tok.MetaMid)
        succ  == SuccessCapture(doc)
    IN  IF num < 0 THEN [err |-> TRUE, ch |-> d]
        ELSE [err |-> FALSE,
              ch |-> [d EXCEPT
                !.Language = lang,
                !.Number = num,
                !.Title = extractBetweenTags(doc, Tok.TitleTagOpen, Tok.TitleTagClose),
                !.Heading = extractBetweenTags(doc, Tok.H1Open, Tok.H1Close),
                !.HasCustomCSS = \E i \in 1..Len(doc) : doc[i] = Tok.StyleBlock,
                !.HasCustomJS = \E i \in 1..Len(doc) :
                                    doc[i] \in {Tok.StyleBlock, Tok.CondWrapperOpen, Tok.CondScriptOpen},
                !.ChapterName = IF name # <<>> THEN name
                                ELSE ChapterLabel(lang) \o <<" ">> \o Digits(num),
                !.Questions = detectConditionals(doc, extractQuestions(doc)),
                !.Conversation = extractConversation(doc, lang),
                !.EmailLabel = OrDefault(CaptureContent(doc, Tok.EmailLabelOpen, Tok.LabelClose), @),
                !.EmailPlaceH = OrDefault(CaptureAttr(doc, Tok.EmailInputOpen), @),
                !.SubmitText = OrDefault(CaptureContent(doc, Tok.SubmitOpen, Tok.ButtonClose), @),
                !.ResetText = OrDefault(CaptureContent(doc, Tok.ResetOpen, Tok.ButtonClose), @),
                !.SuccessMsg = IF succ[1] THEN succ[2] ELSE @,
                !.SummaryTitle = OrDefault(CaptureContent(doc, Tok.SummaryTitleOpen, Tok.H2Close), @)]]

-----------------------------------------------------------------------------
(* The edit session (editChapter, editQuestion): ch is the chapter being   *)
(* edited, sel the question selected in editQuestion (0: the edit menu),   *)
(* edits the number of modifications made so far in the session.  lastOp   *)
(* records the last modification and its selection, before the chapter as  *)
(* it was when that modification started.                                  *)

TitleInputs == {<<"x">>}
NewTitleInputs == {<<"y">>}
LabelInputs == {No}
OptionListInputs == {<<>>, <<Si, No>>}
TypeChoices == {"1", "2"}
ParentInputs == {QID(j) : j \in 1..MaxQ}

\* what the user types at an index prompt: a number from 0 to one past the
\* largest count, or a text that is no number
QuestionIndexInputs == {Digits(n) : n \in 0..(MaxQ + 1)} \cup {<<"x">>}
OptionIndexInputs == {Digits(n) : n \in 0..(MaxOpts + 1)} \cup {<<"x">>}

\* an empty line and a line of white space
EmptyInputs == {<<>>, <<" ">>}

\* what the user types for one question of createChapter
CreateInputs(i) == [title : TitleInputs, typeChoice : {"1"}, labels : {<<Si, No>>},
                    cond : {<<>>} \cup {QID(j) : j \in 1..(i - 1)}]

CreateInputSeqs ==
    UNION {{ins \in [1..n -> UNION {CreateInputs(i) : i \in 1..n}] :
                \A i \in 1..n : ins[i] \in CreateInputs(i)} : n \in 0..MaxQ}

NoDoc == <<>>
NoOp == [op |-> "none", idx |-> 0]
Op(name, idx) == [op |-> name, idx |-> idx]
NoChapter == LanguageDefaults(Spanish)

\* no session is open, the directory is not listed, no batch decode runs
NoBatch == [lang |-> Spanish, next |-> 0, chapters |-> <<>>, reported |-> <<>>]
StoreIdle == sessions = <<>> /\ files = <<>> /\ batch = NoBatch

EditInit ==
    /\ \E ins \in CreateInputSeqs : ch = createChapter(Spanish, 1, <<>>, ins)
    /\ sel = 0
    /\ edits = 0
    /\ lastOp = NoOp
    /\ before = ch
    /\ content = NoDoc
    /\ dec = NoChapter
    /\ pc = "edit"
    /\ checked = {}
    /\ hidden = {}
    /\ StoreIdle

others == <<content, dec, pc, checked, hidden, store>>

\* the index typed is a number of 1..n (main.go 297, 371, 408, 472)
ValidIndex(idx, n) == idx >= 1 /\ idx <= n

\* the operation printed "Invalid selection." and returned
Rejected == Op("invalidSelection", 0)

\* editQuestion, the selection (main.go 284-303)
SelectQuestion(idxStr) ==
    /\ pc = "edit" /\ sel = 0
    /\ LET idx == Atoi(TrimSpace(idxStr))
       IN  IF ValidIndex(idx, Len(ch.Questions))
           THEN sel' = idx /\ UNCHANGED <<lastOp, before>>
           ELSE sel' = 0 /\ lastOp' = Rejected /\ before' = ch
    /\ UNCHANGED <<ch, edits, others>>

\* editQuestion, choice g
DoneQuestion ==
    /\ pc = "edit" /\ sel > 0
    /\ sel' = 0
    /\ UNCHANGED <<ch, edits, lastOp, before, others>>

AddQuestion(title, typeChoice, labels) ==
    /\ pc = "edit" /\ sel = 0 /\ edits < MaxEdits
    /\ Len(ch.Questions) < MaxQ
    /\ ch' = addQuestion(ch, title, typeChoice, labels)
    /\ IF TrimSpace(title) = <<>>
       THEN edits' = edits /\ lastOp' = Op("emptyTitle", 0)
       ELSE edits' = edits + 1 /\ lastOp' = Op("addQuestion", 0)
    /\ before' = ch
    /\ UNCHANGED <<sel, others>>

RemoveQuestion(idxStr) ==
    /\ pc = "edit" /\ sel = 0 /\ edits < MaxEdits
    /\ LET idx == Atoi(TrimSpace(idxStr))
       IN  /\ ch' = removeQuestion(ch, idx)
           /\ IF ValidIndex(idx, Len(ch.Questions))
              THEN edits' = edits + 1 /\ lastOp' = Op("removeQuestion", idx)
              ELSE edits' = edits /\ lastOp' = Rejected
    /\ before' = ch
    /\ UNCHANGED <<sel, others>>

\* editQuestion, choice a
EditTitle(newTitle) ==
    /\ pc = "edit" /\ sel > 0 /\ edits < MaxEdits
    /\ newTitle # <<>>
    /\ ch' = [ch EXCEPT !.Questions[sel].Title = newTitle]
    /\ edits' = edits + 1
    /\ lastOp' = Op("editTitle", sel)
    /\ before' = ch
    /\ UNCHANGED <<sel, others>>

editOption(q, idx, newLabel) ==
    IF Len(q.Options) = 0 \/ idx < 1 \/ idx > Len(q.Options) \/ newLabel = <<>> THEN q
    ELSE [q EXCEPT !.Options[idx] = NewOption(newLabel)]

addOption(q, label) ==
    IF TrimSpace(label) = <<>> THEN q
    ELSE [q EXCEPT !.Options = Append(@, NewOption(TrimSpace(label)))]

removeOption(q, idx) ==
    IF Len(q.Options) = 0 \/ idx < 1 \/ idx > Len(q.Options) THEN q
    ELSE [q EXCEPT !.Options = RemoveAt(@, idx)]

\* editQuestion, choice b
EditOption(idxStr, newLabel) ==
    /\ pc = "edit" /\ sel > 0 /\ edits < MaxEdits
    /\ LET idx == Atoi(TrimSpace(idxStr))
       IN  /\ ch' = [ch EXCEPT !.Questions[sel] = editOption(@, idx, newLabel)]
           /\ IF ValidIndex(idx, Len(ch.Questions[sel].Options))
              THEN edits' = edits + 1 /\ lastOp' = Op("editOption", idx)
              ELSE edits' = edits /\ lastOp' = Rejected
    /\ before' = ch
    /\ UNCHANGED <<sel, others>>

\* editQuestion, choice c
AddOption(label) ==
    /\ pc = "edit" /\ sel > 0 /\ edits < MaxEdits
    /\ Len(ch.Questions[sel].Options) < MaxOpts
    /\ ch' = [ch EXCEPT !.Questions[sel] = addOption(@, label)]
    /\ edits' = edits + 1
    /\ lastOp' = Op("addOption", sel)
    /\ before' = ch
    /\ UNCHANGED <<sel, others>>

\* editQuestion, choice d
RemoveOption(idxStr) ==
    /\ pc = "edit" /\ sel > 0 /\ edits < MaxEdits
    /\ LET idx == Atoi(TrimSpace(idxStr))
       IN  /\ ch' = [ch EXCEPT !.Questions[sel] = removeOption(@, idx)]
           /\ IF ValidIndex(idx, Len(ch.Questions[sel].Options))
              THEN edits' = edits + 1 /\ lastOp' = Op("removeOption", idx)
              ELSE edits' = edits /\ lastOp' = Rejected
    /\ before' = ch
    /\ UNCHANGED <<sel, others>>

toggleType(q) == [q EXCEPT !.Type = IF @ = Radio THEN Checkbox ELSE Radio]

\* editQuestion, choice e
ToggleType ==
    /\ pc = "edit" /\ sel > 0 /\ edits < MaxEdits
    /\ ch' = [ch EXCEPT !.Questions[sel] = toggleType(@)]
    /\ edits' = edits + 1
    /\ lastOp' = Op("toggleType", sel)
    /\ before' = ch
    /\ UNCHANGED <<sel, others>>

toggleConditional(q, parent) ==
    IF q.ConditionalOn # <<>> THEN [q EXCEPT !.ConditionalOn = <<>>]
    ELSE IF parent # <<>> THEN [q EXCEPT !.ConditionalOn = parent] ELSE q

\* editQuestion, choice f
ToggleConditional(parent) ==
    /\ pc = "edit" /\ sel > 0 /\ edits < MaxEdits
    /\ ch' = [ch EXCEPT !.Questions[sel] = toggleConditional(@, parent)]
    /\ edits' = edits + 1
    /\ lastOp' = Op("toggleConditional", sel)
    /\ before' = ch
    /\ UNCHANGED <<sel, others>>

EditNext ==
    \/ \E idxStr \in QuestionIndexInputs : SelectQuestion(idxStr)
    \/ DoneQuestion
    \/ \E title \in TitleInputs \cup EmptyInputs, typeChoice \in TypeChoices, labels \in OptionListInputs :
          AddQuestion(title, typeChoice, labels)
    \/ \E idxStr \in QuestionIndexInputs : RemoveQuestion(idxStr)
    \/ \E newTitle \in NewTitleInputs : EditTitle(newTitle)
    \/ \E idxStr \in OptionIndexInputs, newLabel \in LabelInputs : EditOption(idxStr, newLabel)
    \/ \E label \in LabelInputs : AddOption(label)
    \/ \E idxStr \in OptionIndexInputs : RemoveOption(idxStr)
    \/ ToggleType
    \/ \E parent \in ParentInputs : ToggleConditional(parent)

Spec == EditInit /\ [][EditNext]_vars

-----------------------------------------------------------------------------
(* The codec: a chapter is saved (saveChapter: the encoding is written to  *)
(* its file) and the file is parsed again (parseChapterFile).  ch is the   *)
(* chapter, content the file, dec the parsed chapter.                      *)

Languages == {Spanish, English}

Kinds == {Radio, Checkbox}

\* the characters of the texts tried in the free-text fields
Alphabet == {"x", "&", "<", ">", "\"", "\\"}

Texts == UNION {[1..n -> Alphabet] : n \in 1..MaxLen}

\* a question at position i with the given kind, flag and reference
PlainQuestion(lang, i, kind, required, cond) ==
    [ID |-> QID(i), Title |-> QPrefix(i) \o <<"x">>, Type |-> kind,
     Options |-> LabelsToOptions(<<yesValue(lang), No>>), Required |-> required,
     ConditionalOn |-> cond]

Shapes(i) == [kind : Kinds, required : BOOLEAN, cond : {<<>>} \cup {QID(j) : j \in 1..(i - 1)}]

ShapeSeqs ==
    UNION {{sh \in [1..n -> UNION {Shapes(i) : i \in 1..n}] :
                \A i \in 1..n : sh[i] \in Shapes(i)} : n \in 0..MaxQ}

ShapedChapter(lang, convLabel, sh) ==
    [createChapter(lang, 1, convLabel, <<>>) EXCEPT
        !.Questions = [i \in 1..Len(sh) |->
                          PlainQuestion(lang, i, sh[i].kind, sh[i].required, sh[i].cond)]]

\* chapters of every shape with plain texts
StructChapters ==
    {ShapedChapter(lang, convLabel, sh) : lang \in Languages, convLabel \in {<<>>, <<"x">>}, sh \in ShapeSeqs}

\* a radio question followed by a checkbox question, no conditional question
TextBase ==
    ShapedChapter(Spanish, <<"x">>,
                  <<[kind |-> Radio, required |-> TRUE, cond |-> <<>>],
                    [kind |-> Checkbox, required |-> FALSE, cond |-> <<>>]>>)

Slots == {"Title", "Heading", "QTitle", "OptValue", "OptLabel", "BoxValue", "ConvTitle",
          "ConvLabel", "ConvPlaceholder", "EmailLabel", "EmailPlaceH", "SubmitText",
          "ResetText", "SuccessMsg", "SummaryTitle", "ChapterName"}

SetField(c, slot, t) ==
    CASE slot = "Title" -> [c EXCEPT !.Title = t]
      [] slot = "Heading" -> [c EXCEPT !.Heading = t]
      [] slot = "QTitle" -> [c EXCEPT !.Questions[1].Title = QPrefix(1) \o t]
      [] slot = "OptValue" -> [c EXCEPT !.Questions[1].Options[1].Value = t]
      [] slot = "OptLabel" -> [c EXCEPT !.Questions[1].Options[1].Label = t]
      [] slot = "BoxValue" -> [c EXCEPT !.Questions[2].Options[1].Value = t]
      [] slot = "ConvTitle" -> [c EXCEPT !.Conversation.Title = t]
      [] slot = "ConvLabel" -> [c EXCEPT !.Conversation.Label = t]
      [] slot = "ConvPlaceholder" -> [c EXCEPT !.Conversation.Placeholder = t]
      [] slot = "EmailLabel" -> [c EXCEPT !.EmailLabel = t]
      [] slot = "EmailPlaceH" -> [c EXCEPT !.EmailPlaceH = t]
      [] slot = "SubmitText" -> [c EXCEPT !.SubmitText = t]
      [] slot = "ResetText" -> [c EXCEPT !.ResetText = t]
      [] slot = "SuccessMsg" -> [c EXCEPT !.SuccessMsg = t]
      [] slot = "SummaryTitle" -> [c EXCEPT !.SummaryTitle = t]
      [] slot = "ChapterName" -> [c EXCEPT !.ChapterName = t]

\* the base chapter with one free-text field set to a text of the alphabet
TextChapters == {SetField(TextBase, slot, t) : slot \in Slots, t \in Texts}

\* chapters as a decode of a page with a style block and a script leaves them
FlagChapters == {[c EXCEPT !.HasCustomCSS = TRUE, !.HasCustomJS = TRUE] : c \in StructChapters}

\* chapters as toggleConditional leaves them: it accepts any id as the parent
LooseChapters ==
    UNION {{[ShapedChapter(Spanish, <<"x">>, [i \in 1..n |-> [kind |-> Radio, required |-> TRUE, cond |-> <<>>]])
         EXCEPT !.Questions = [i \in 1..n |-> [@[i] EXCEPT !.ConditionalOn = conds[i]]]] :
        conds \in [1..n -> {<<>>} \cup {QID(j) : j \in 1..n}]} : n \in 1..2}

CodecChapters == StructChapters \cup TextChapters \cup FlagChapters \cup LooseChapters

CodecInit ==
    /\ ch \in CodecChapters
    /\ sel = 0
    /\ edits = 0
    /\ lastOp = NoOp
    /\ before = NoChapter
    /\ content = NoDoc
    /\ dec = NoChapter
    /\ pc = "model"
    /\ checked = {}
    /\ hidden = {}
    /\ StoreIdle

\* saveChapter (part_000 366-371)
Save ==
    /\ pc = "model"
    /\ content' = generateChapterHTML(ch)
    /\ pc' = "saved"
    /\ UNCHANGED <<ch, sel, edits, lastOp, before, dec, checked, hidden, store>>

\* parseChapterFile on the saved file (main.go 216)
Load ==
    /\ pc = "saved"
    /\ LET r == parseChapterFile(chapterFileName(ch.Number, ch.Language), content, ch.Language)
       IN  /\ ~r.err
           /\ dec' = r.ch
    /\ pc' = "loaded"
    /\ UNCHANGED <<ch, sel, edits, lastOp, before, content, checked, hidden, store>>

CodecNext == Save \/ Load

SpecCodec == CodecInit /\ [][CodecNext]_vars

-----------------------------------------------------------------------------
(* The rendered page: the option inputs generateQuestionHTML writes and    *)
(* the change listeners generateConditionalJS writes.  checked is the set  *)
(* of checked inputs <<question position, option index>>, hidden the set   *)
(* of question positions whose wrapper has the class hidden.               *)

\* the names the handler declares with const, in order (part_000 309-311)
DeclaredNames(c) ==
    Concat([k \in 1..Len(Listeners(c)) |->
               <<Listeners(c)[k].parent \o <<"Radios">>,
                 Listeners(c)[k].child \o <<"Section">>,
                 Listeners(c)[k].child \o <<"Inputs">>>>])

\* a second const declaration of a name in the handler is a syntax error,
\* and then no statement of the script runs
ScriptRuns(c) ==
    LET names == DeclaredNames(c)
    IN  Cardinality({names[a] : a \in 1..Len(names)}) = Len(names)

\* document.querySelectorAll('input[name="id"]'): the questions whose inputs have that name
NamedQuestions(c, id) == {i \in 1..Len(c.Questions) : c.Questions[i].ID = id}

\* document.getElementById(id + '-section'): the first conditional wrapper with that id, 0 if none
SectionOf(c, id) ==
    LET ws == {i \in 1..Len(c.Questions) :
                  c.Questions[i].ID = id /\ Wrapper(c.Questions[i])[1] = Tok.CondWrapperOpen}
    IN  IF ws = {} THEN 0 ELSE CHOOSE i \in ws : \A o \in ws : i <= o

\* document.querySelectorAll('#<id>-section input[type="<inputType>"]')
SectionInputs(c, id, type) ==
    IF SectionOf(c, id) = 0 THEN {}
    ELSE {<<SectionOf(c, id), k>> : k \in {o \in 1..Len(c.Questions[SectionOf(c, id)].Options) :
                                             c.Questions[SectionOf(c, id)].Type = type}}

\* the effect of one listener on <<checked, hidden>> for a change of an input with the value
RunListener(c, l, value, st) ==
    LET section == SectionOf(c, l.child)
    IN  IF section = 0 THEN st
        ELSE IF value = l.yes
             THEN [checked |-> st.checked, hidden |-> st.hidden \ {section}]
             ELSE [checked |-> st.checked \ SectionInputs(c, l.child, l.inputType),
                   hidden |-> st.hidden \cup {section}]

\* the listeners registered on the inputs of question i, run in registration order
RECURSIVE RunListeners(_, _, _, _, _)
RunListeners(c, ls, i, value, st) ==
    IF ls = <<>> THEN st
    ELSE RunListeners(c, Tail(ls), i, value,
                      IF i \in NamedQuestions(c, Head(ls).parent)
                      THEN RunListener(c, Head(ls), value, st) ELSE st)

\* the change event of the input <<i, k>>
Change(c, i, k, st) ==
    IF ScriptRuns(c) THEN RunListeners(c, Listeners(c), i, c.Questions[i].Options[k].Value, st)
    ELSE st

PageChapters ==
    {c \in StructChapters :
        /\ c.Conversation.Label = <<"x">>
        /\ hasConditionalQuestions(c)
        /\ \A i \in 1..Len(c.Questions) : c.Questions[i].Required}

ChangeOp(i, k) == [op |-> "change", idx |-> i, opt |-> k]

PageInit ==
    /\ ch \in PageChapters
    /\ sel = 0
    /\ edits = 0
    /\ lastOp = NoOp
    /\ before = NoChapter
    /\ content = NoDoc
    /\ dec = NoChapter
    /\ pc = "page"
    /\ checked = {}
    /\ hidden = {i \in 1..Len(ch.Questions) : Wrapper(ch.Questions[i])[1] = Tok.CondWrapperOpen}
    /\ StoreIdle

\* the user selects option k of the single-choice question i
ClickRadio(i, k) ==
    /\ pc = "page"
    /\ i \in 1..Len(ch.Questions) /\ k \in 1..Len(ch.Questions[i].Options)
    /\ ch.Questions[i].Type = Radio
    /\ i \notin hidden
    /\ <<i, k>> \notin checked
    /\ LET st == Change(ch, i, k, [checked |-> {e \in checked : e[1] # i} \cup {<<i, k>>},
                                   hidden |-> hidden])
       IN  checked' = st.checked /\ hidden' = st.hidden
    /\ lastOp' = ChangeOp(i, k)
    /\ UNCHANGED <<ch, sel, edits, before, content, dec, pc, store>>

\* the user ticks or unticks option k of the multi-choice question i
ClickCheckbox(i, k) ==
    /\ pc = "page"
    /\ i \in 1..Len(ch.Questions) /\ k \in 1..Len(ch.Questions[i].Options)
    /\ ch.Questions[i].Type = Checkbox
    /\ i \notin hidden
    /\ LET st == Change(ch, i, k, [checked |-> IF <<i, k>> \in checked THEN checked \ {<<i, k>>}
                                               ELSE checked \cup {<<i, k>>},
                                   hidden |-> hidden])
       IN  checked' = st.checked /\ hidden' = st.hidden
    /\ lastOp' = ChangeOp(i, k)
    /\ UNCHANGED <<ch, sel, edits, before, content, dec, pc, store>>

PageNext ==
    \/ \E i \in 1..MaxQ, k \in 1..MaxOpts : ClickRadio(i, k)
    \/ \E i \in 1..MaxQ, k \in 1..MaxOpts : ClickCheckbox(i, k)

SpecPage == PageInit /\ [][PageNext]_vars

-----------------------------------------------------------------------------
(* Decoding a file that lacks elements: content is a chapter file from     *)
(* which the elements that carry some fields were deleted, dec the chapter *)
(* parseChapterFile makes of it.                                           *)

\* the element that carries a field: its first and its last token
Carrier ==
    [Heading      |-> <<Tok.H1Open, Tok.H1Close>>,
     Conversation |-> <<Tok.ConvOpen, Tok.TextareaClose>>,
     EmailLabel   |-> <<Tok.EmailLabelOpen, Tok.LabelClose>>,
     EmailPlaceH  |-> <<Tok.EmailInputOpen, Tok.EmailInputClose>>,
     SubmitText   |-> <<Tok.SubmitOpen, Tok.ButtonClose>>,
     ResetText    |-> <<Tok.ResetOpen, Tok.ButtonClose>>,
     SuccessMsg   |-> <<Tok.SuccessOpen, Tok.DivClose>>,
     SummaryTitle |-> <<Tok.SummaryTitleOpen, Tok.H2Close>>,
     ChapterName  |-> <<Tok.MetaMid, Tok.MetaClose>>]

CarriedFields == DOMAIN Carrier

\* the document without the element that carries the field
WithoutField(doc, f) ==
    LET a == FirstIndex(doc, Carrier[f][1], 1)
        b == IF a = 0 THEN 0 ELSE FirstIndex(doc, Carrier[f][2], a + 1)
    IN  IF a = 0 \/ b = 0 THEN doc ELSE SubSeq(doc, 1, a - 1) \o SubSeq(doc, b + 1, Len(doc))

\* the document without the elements that carry the fields, one at a time
RECURSIVE WithoutFields(_, _)
WithoutFields(doc, fs) ==
    IF fs = {} THEN doc
    ELSE LET f == CHOOSE g \in fs : TRUE
         IN  CHOOSE r \in {WithoutFields(d, fs \ {f}) : d \in {WithoutField(doc, f)}} : TRUE

\* the document has no element for the field
Lacks(doc, f) == FirstIndex(doc, Carrier[f][1], 1) = 0

\* the chapters whose files are decoded: at most one question
DecodeChapters == {c \in StructChapters : Len(c.Questions) <= 1}

DecodeInit ==
    /\ ch \in DecodeChapters
    /\ \E fs \in SUBSET CarriedFields, doc \in {generateChapterHTML(ch)} : content = WithoutFields(doc, fs)
    /\ sel = 0
    /\ edits = 0
    /\ lastOp = NoOp
    /\ before = NoChapter
    /\ dec = NoChapter
    /\ pc = "file"
    /\ checked = {}
    /\ hidden = {}
    /\ StoreIdle

\* parseChapterFile on the file (parser.go 64-147)
ParseFile ==
    /\ pc = "file"
    /\ LET r == parseChapterFile(chapterFileName(ch.Number, ch.Language), content, ch.Language)
       IN  /\ dec' = r.ch
           /\ pc' = IF r.err THEN "failed" ELSE "parsed"
    /\ UNCHANGED <<ch, sel, edits, lastOp, before, content, checked, hidden, store>>

DecodeNext == ParseFile

SpecDecode == DecodeInit /\ [][DecodeNext]_vars

-----------------------------------------------------------------------------
(* The batch decode (parseChaptersByLanguage): files is the list of the    *)
(* files filepath.Glob returns for <prefix>_*.html, in its sorted order,   *)
(* batch the language, the position of the loop, the chapters collected    *)
(* and the file names reported so far.                                     *)

\* file names that match <prefix>_*.html, in the order of the listing
BatchNames(lang) ==
    <<FilePrefix(lang) \o <<"_", ".html">>,
      FilePrefix(lang) \o <<"_", "0", "0", ".html">>,
      chapterFileName(1, lang),
      chapterFileName(2, lang),
      FilePrefix(lang) \o <<"_", "x", ".html">>>>

\* a file of the directory: the encoding of a chapter without questions
BatchFile(lang, name) ==
    [name |-> name, content |-> generateChapterHTML(ShapedChapter(lang, <<"x">>, <<>>))]

\* the subsequence of the names at the positions in keep
RECURSIVE Listing(_, _, _)
Listing(lang, keep, i) ==
    IF i > Len(BatchNames(lang)) THEN <<>>
    ELSE (IF i \in keep THEN <<BatchFile(lang, BatchNames(lang)[i])>> ELSE <<>>)
         \o Listing(lang, keep, i + 1)

BatchInit ==
    /\ \E lang \in Languages : \E keep \in SUBSET (1..Len(BatchNames(lang))) :
          /\ files = Listing(lang, keep, 1)
          /\ batch = [lang |-> lang, next |-> 1, chapters |-> <<>>, reported |-> <<>>]
    /\ sessions = <<>>
    /\ ch = NoChapter
    /\ sel = 0
    /\ edits = 0
    /\ lastOp = NoOp
    /\ before = NoChapter
    /\ content = NoDoc
    /\ dec = NoChapter
    /\ pc = "batch"
    /\ checked = {}
    /\ hidden = {}

\* one pass of the loop of parseChaptersByLanguage (parser.go 52-59)
ParseNextFile ==
    /\ pc = "batch"
    /\ batch.next <= Len(files)
    /\ LET f == files[batch.next]
           r == parseChapterFile(f.name, f.content, batch.lang)
       IN  batch' = IF r.err
                    THEN [batch EXCEPT !.next = @ + 1, !.reported = Append(@, f.name)]
                    ELSE [batch EXCEPT !.next = @ + 1, !.chapters = Append(@, r.ch)]
    /\ UNCHANGED <<ch, sel, edits, lastOp, before, content, dec, pc, checked, hidden,
                   sessions, files>>

\* the loop is over: parseChaptersByLanguage returns the chapters
ReturnChapters ==
    /\ pc = "batch"
    /\ batch.next > Len(files)
    /\ pc' = "returned"
    /\ UNCHANGED <<ch, sel, edits, lastOp, before, content, dec, checked, hidden, store>>

BatchNext == ParseNextFile \/ ReturnChapters

SpecBatch == BatchInit /\ [][BatchNext]_vars

-----------------------------------------------------------------------------
(* Editors and the storage: files is the directory, a list of files with   *)
(* their names and contents; sessions holds, for each editor, where its    *)
(* editChapter session stands (idle, editing, left), the chapter it has in *)
(* memory, the number of edits it made and whether it has saved.  lastOp   *)
(* records the last step and the session that took it.                     *)

Editors == {1, 2}

\* editHeading (main.go 275-282)
editHeading(c, newHeading) == IF newHeading # <<>> THEN [c EXCEPT !.Heading = newHeading] ELSE c

\* editConversation (main.go 501-523)
editConversation(c, newTitle, newLabel, newPlaceholder) ==
    [c EXCEPT !.Conversation.Title = IF newTitle # <<>> THEN newTitle ELSE @,
              !.Conversation.Label = IF newLabel # <<>> THEN newLabel ELSE @,
              !.Conversation.Placeholder = IF newPlaceholder # <<>> THEN newPlaceholder ELSE @]

\* editLabels (main.go 525-576)
editLabels(c, choice, v) ==
    IF v = <<>> THEN c
    ELSE CASE choice = "1" -> [c EXCEPT !.EmailLabel = v]
           [] choice = "2" -> [c EXCEPT !.EmailPlaceH = v]
           [] choice = "3" -> [c EXCEPT !.SubmitText = v]
           [] choice = "4" -> [c EXCEPT !.ResetText = v]
           [] choice = "5" -> [c EXCEPT !.SuccessMsg = v]
           [] choice = "6" -> [c EXCEPT !.SummaryTitle = v]
           [] choice = "7" -> [c EXCEPT !.ChapterName = v]
           [] OTHER -> c

\* the chapters one choice of the edit menu (1-6) can make of c
MenuEdits(c) ==
    {editHeading(c, <<"y">>),
     addQuestion(c, <<"x">>, "1", <<Si, No>>),
     removeQuestion(c, 1),
     editConversation(c, <<>>, <<"y">>, <<>>),
     editLabels(c, "3", <<"y">>)}
    \cup (IF c.Questions = <<>> THEN {}
          ELSE {[c EXCEPT !.Questions[1] = toggleType(@)],
                [c EXCEPT !.Questions[1] = removeOption(@, 1)]})

\* the position in the directory of the file with the name, 0 when there is none
FileAt(fs, name) ==
    IF \E i \in 1..Len(fs) : fs[i].name = name
    THEN CHOOSE i \in 1..Len(fs) : fs[i].name = name
    ELSE 0

\* os.WriteFile(path, data, 0644): the file is replaced, or created
WriteFile(fs, name, data) ==
    IF FileAt(fs, name) = 0 THEN Append(fs, [name |-> name, content |-> data])
    ELSE [fs EXCEPT ![FileAt(fs, name)].content = data]

IdleSession == [pc |-> "idle", ch |-> NoChapter, n |-> 0, saved |-> FALSE]

\* the directory the editors start from: the files of chapters 1 and 2
StoreFiles ==
    <<[name |-> chapterFileName(1, Spanish), content |-> generateChapterHTML(TextBase)],
      [name |-> chapterFileName(2, Spanish),
       content |-> generateChapterHTML(createChapter(Spanish, 2, <<>>, <<>>))]>>

StoreInit ==
    /\ files = StoreFiles
    /\ sessions = [s \in Editors |-> IdleSession]
    /\ batch = NoBatch
    /\ ch = NoChapter
    /\ sel = 0
    /\ edits = 0
    /\ lastOp = NoOp
    /\ before = NoChapter
    /\ content = NoDoc
    /\ dec = NoChapter
    /\ pc = "store"
    /\ checked = {}
    /\ hidden = {}

storeOthers == <<ch, sel, edits, before, content, dec, pc, checked, hidden, batch>>

\* editChapter up to the menu: the file of chapter 1 is parsed (main.go 205-222)
OpenSession(s) ==
    /\ pc = "store"
    /\ sessions[s].pc = "idle"
    /\ FileAt(files, chapterFileName(1, Spanish)) # 0
    /\ LET r == parseChapterFile(chapterFileName(1, Spanish),
                                 files[FileAt(files, chapterFileName(1, Spanish))].content, Spanish)
       IN  sessions' = [sessions EXCEPT ![s] = IF r.err THEN [@ EXCEPT !.pc = "left"]
                                               ELSE [@ EXCEPT !.pc = "editing", !.ch = r.ch]]
    /\ lastOp' = Op("open", s)
    /\ UNCHANGED <<files, storeOthers>>

\* an edit menu that saved after every choice 1-6
SessionEdit_Autosave(s) ==
    /\ pc = "store"
    /\ sessions[s].pc = "editing"
    /\ sessions[s].n < MaxSessionEdits
    /\ \E c \in MenuEdits(sessions[s].ch) :
          /\ sessions' = [sessions EXCEPT ![s].ch = c, ![s].n = @ + 1]
          /\ files' = WriteFile(files, chapterFileName(c.Number, c.Language), generateChapterHTML(c))
    /\ lastOp' = Op("edit", s)
    /\ UNCHANGED storeOthers

\* a choice 1-6 of the edit menu (main.go 229-240)
SessionEdit(s) ==
    /\ pc = "store"
    /\ sessions[s].pc = "editing"
    /\ sessions[s].n < MaxSessionEdits
    /\ \E c \in MenuEdits(sessions[s].ch) :
          sessions' = [sessions EXCEPT ![s].ch = c, ![s].n = @ + 1]
    /\ lastOp' = Op("edit", s)
    /\ UNCHANGED <<files, storeOthers>>

\* a save that kept the file once another session had written it
SessionSave_FirstWins(s) ==
    /\ pc = "store"
    /\ sessions[s].pc = "editing"
    /\ files' = IF \E o \in Editors \ {s} : sessions[o].saved
                THEN files
                ELSE WriteFile(files, chapterFileName(sessions[s].ch.Number, sessions[s].ch.Language),
                               generateChapterHTML(sessions[s].ch))
    /\ sessions' = [sessions EXCEPT ![s].saved = TRUE]
    /\ lastOp' = Op("save", s)
    /\ UNCHANGED storeOthers

\* choice 8 of the edit menu: saveChapter (main.go 244-251, part_000 366-371)
SessionSave(s) ==
    /\ pc = "store"
    /\ sessions[s].pc = "editing"
    /\ files' = WriteFile(files, chapterFileName(sessions[s].ch.Number, sessions[s].ch.Language),
                          generateChapterHTML(sessions[s].ch))
    /\ sessions' = [sessions EXCEPT ![s].saved = TRUE]
    /\ lastOp' = Op("save", s)
    /\ UNCHANGED storeOthers

\* choice 9 of the edit menu: the session returns (main.go 252-254)
SessionLeave(s) ==
    /\ pc = "store"
    /\ sessions[s].pc = "editing"
    /\ sessions' = [sessions EXCEPT ![s].pc = "left"]
    /\ lastOp' = Op("leave", s)
    /\ UNCHANGED <<files, storeOthers>>

StoreNext ==
    \E s \in Editors : OpenSession(s) \/ SessionEdit(s) \/ SessionSave(s) \/ SessionLeave(s)

SpecStore == StoreInit /\ [][StoreNext]_vars

-----------------------------------------------------------------------------
(* Removing questions from a loaded chapter: extractQuestions takes the id *)
(* of a question from the number in its title, so the ids of a loaded      *)
(* chapter are distinct but need not follow the positions, and a title     *)
(* typed in an edit need not have the conventional prefix.                 *)

\* the text of the title of the k-th question
Letter(k) == IF k = 1 THEN <<"x">> ELSE IF k = 2 THEN <<"y">> ELSE IF k = 3 THEN <<"z">> ELSE <<"w">>

\* the injections of 1..n into the numbers an id can have
IdOrders(n) == {f \in [1..n -> 1..(MaxQ + 1)] : \A i, j \in 1..n : i # j => f[i] # f[j]}

\* the chapter with the ids q<nums[k]>, the titles Q<nums[k]>: <k-th text>
\* and the references conds
OrderedChapter(nums, conds) ==
    [createChapter(Spanish, 1, <<>>, <<>>) EXCEPT
        !.Questions = [k \in 1..Len(nums) |->
                          [PlainQuestion(Spanish, nums[k], Radio, TRUE, conds[k])
                              EXCEPT !.Title = QPrefix(nums[k]) \o Letter(k)]]]

\* the references of n questions, at most two of them conditional
RefChoices(n) ==
    {conds \in [1..n -> {<<>>} \cup {QID(j) : j \in 1..(MaxQ + 1)}] :
        Cardinality({k \in 1..n : conds[k] # <<>>}) <= 2}

OrderChapters ==
    UNION {{OrderedChapter(nums, conds) : nums \in IdOrders(n), conds \in RefChoices(n)} : n \in 1..MaxQ}

TitleAlphabet == {"Q", "2", ":", "x"}

PrefixTitles == UNION {[1..n -> TitleAlphabet] : n \in 1..MaxTitleLen}

\* the chapters q1, q2 where the title of q2 is any text
TitleChapters ==
    {[OrderedChapter(<<1, 2>>, <<<<>>, <<>>>>) EXCEPT !.Questions[2].Title = t] : t \in PrefixTitles}

RenumberInit ==
    /\ ch \in OrderChapters \cup TitleChapters
    /\ sel = 0
    /\ edits = 0
    /\ lastOp = NoOp
    /\ before = ch
    /\ content = NoDoc
    /\ dec = NoChapter
    /\ pc = "edit"
    /\ checked = {}
    /\ hidden = {}
    /\ StoreIdle

RenumberNext == \E idxStr \in QuestionIndexInputs : RemoveQuestion(idxStr)

SpecRenumber == RenumberInit /\ [][RenumberNext]_vars

-----------------------------------------------------------------------------
(* The encoder of the server: generateChapterHtml of server.js, the inline *)
(* styles and the question blocks.  The data of a chapter names its fields *)
(* as parseChapter does: name, title, options (the values), conditional,   *)
(* sectionId; the conversation is the last entry, of type textarea.        *)

\* esc (server.js 127-130)
RECURSIVE esc(_)
esc(s) ==
    IF s = <<>> THEN <<>>
    ELSE (CASE Head(s) = "&" -> <<"&", "amp;">>
            [] Head(s) = "<" -> <<"&", "lt;">>
            [] Head(s) = ">" -> <<"&", "gt;">>
            [] OTHER -> <<Head(s)>>) \o esc(Tail(s))

\* escAttr (server.js 132-135)
RECURSIVE escAttr(_)
escAttr(s) ==
    IF s = <<>> THEN <<>>
    ELSE (CASE Head(s) = "&" -> <<"&", "amp;">>
            [] Head(s) = "\"" -> <<"&", "quot;">>
            [] Head(s) = "<" -> <<"&", "lt;">>
            [] Head(s) = ">" -> <<"&", "gt;">>
            [] OTHER -> <<Head(s)>>) \o escAttr(Tail(s))

\* the data that describes the chapter: one entry of data.questions for each
\* question (server.js 50-72) and one for the conversation (server.js 74-82)
ChapterData(c) ==
    LET QuestionData(q) ==
            [type |-> q.Type, name |-> q.ID, title |-> q.Title,
             options |-> [j \in 1..Len(q.Options) |-> q.Options[j].Value],
             conditional |-> q.ConditionalOn # <<>>,
             sectionId |-> IF q.ConditionalOn # <<>> THEN q.ID \o <<"-section">> ELSE <<>>]
        ConversationData ==
            [type |-> "textarea", name |-> <<"conversation">>, title |-> c.Conversation.Title,
             label |-> c.Conversation.Label, placeholder |-> c.Conversation.Placeholder]
    IN  [lang |-> c.Language,
         questions |-> [i \in 1..Len(c.Questions) |-> QuestionData(c.Questions[i])] \o <<ConversationData>>]

\* inlineStyles (server.js 139-194)
inlineStyles(data) ==
    LET hasCheckboxes   == \E i \in 1..Len(data.questions) : data.questions[i].type = Checkbox
        hasConditionals == \E i \in 1..Len(data.questions) :
                              data.questions[i].type # "textarea" /\ data.questions[i].conditional
    IN  IF hasCheckboxes \/ hasConditionals THEN <<Tok.StyleBlock>> ELSE <<>>

\* the opening tag of the block of a question (server.js 200-201, 214)
SectionOpen(q) ==
    IF ~q.conditional /\ q.sectionId = <<>> THEN <<Tok.PlainWrapper>>
    ELSE IF q.conditional /\ q.sectionId # <<>> THEN <<Tok.CondWrapperOpen, Join(q.sectionId) \o "\">">>
    ELSE IF q.conditional THEN <<"<div class=\"question-section conditional-section hidden\">">>
    ELSE <<"<div class=\"question-section\" id=\"", Join(q.sectionId) \o "\">">>

\* one radio option (server.js 203-211)
RadioOptionHtml(q, j) ==
    <<Tok.OptionDivOpen, Tok.RadioInputTag, IdAttr(OptID(q.name, j)), NameValueAttr(q.name)>>
    \o escAttr(q.options[j]) \o <<Tok.Quote>>
    \o (IF j = 1 /\ ~q.conditional THEN <<Tok.RequiredAttr>> ELSE <<>>)
    \o <<Tok.InputEndLabelOpen, ForAttrClose(OptID(q.name, j))>>
    \o esc(q.options[j]) \o <<Tok.LabelClose, Tok.DivClose>>

\* one checkbox option (server.js 224-231)
CheckboxOptionHtml(q, j) ==
    <<Tok.CheckboxOptionOpen, Tok.CheckboxInputTag, IdAttr(OptID(q.name, j)), NameValueAttr(q.name)>>
    \o escAttr(q.options[j]) \o <<Tok.Quote>>
    \o <<Tok.InputEndLabelOpen, ForAttrClose(OptID(q.name, j))>>
    \o esc(q.options[j]) \o <<Tok.LabelClose, Tok.DivClose>>

\* the block of one entry of data.questions (server.js 198-252)
QuestionBlock(q) ==
    IF q.type = Radio
    THEN <<Comment(q.name)>> \o SectionOpen(q) \o <<Tok.TitleOpen>> \o esc(q.title) \o <<Tok.DivClose>>
         \o <<Tok.OptionsOpen>> \o Concat([j \in 1..Len(q.options) |-> RadioOptionHtml(q, j)])
         \o <<Tok.DivClose, Tok.DivClose>>
    ELSE IF q.type = Checkbox
    THEN <<Comment(q.name)>> \o SectionOpen(q) \o <<Tok.TitleOpen>> \o esc(q.title) \o <<Tok.DivClose>>
         \o <<Tok.CheckboxGroupOpen>> \o Concat([j \in 1..Len(q.options) |-> CheckboxOptionHtml(q, j)])
         \o <<Tok.DivClose, Tok.DivClose>>
    ELSE IF q.type = "textarea"
    THEN <<Tok.ConvOpen, Tok.TitleOpen>> \o esc(q.title) \o <<Tok.DivClose, Tok.TextInputOpen, Tok.ConvLabelOpen>>
         \o esc(q.label) \o <<Tok.LabelClose, Tok.TextareaOpen>>
         \o escAttr(q.placeholder) \o <<Tok.Quote, Tok.TextareaClose>>
    ELSE <<>>

\* the head and the form of the page generateChapterHtml returns, up to the
\* block of the last entry of data.questions (server.js 197-254, 270-282)
generateChapterHtml(data) ==
    LET questionsHtml == Concat([i \in 1..Len(data.questions) |-> QuestionBlock(data.questions[i])])
    IN  <<Tok.LinkCss>> \o inlineStyles(data) \o <<Tok.BodyOpen, Tok.FormOpen>> \o questionsHtml

-----------------------------------------------------------------------------
(* The conditional script as the server reads it: the text of the page cut *)
(* at every occurrence of }); between the script tags.                     *)

\* the text of one element of the page, cut at every occurrence of });
Pieces(e) ==
    LET bodies == {ListenerBodyPieces(QID(p), QID(c), y) :
                      p \in 1..(MaxQ + 1), c \in 1..(MaxQ + 1), y \in {Si, Yes}}
    IN  IF e = Tok.CondScriptOpen
        THEN <<"<script>", "// Handle conditional questions document.addEventListener('DOMContentLoaded', function() {">>
        ELSE IF e = Tok.CondScriptClose THEN <<"});", "</script>">>
        ELSE IF \E b \in bodies : Join(b) = e THEN CHOOSE b \in bodies : Join(b) = e
        ELSE <<e>>

\* extractConditionalScript (server.js 116-121): the match of the expression
\* from the comment to the first }); after the opening of the handler
extractConditionalScript(html) ==
    LET open    == FirstIndex(html, Tok.CondScriptOpen, 1)
        Ends(i) == \E k \in 1..Len(Pieces(html[i])) : Pieces(html[i])[k] = "});"
        closers == {i \in (open + 1)..Len(html) : Ends(i)}
        last    == CHOOSE i \in closers : \A j \in closers : i <= j
    IN  IF open = 0 \/ closers = {} THEN <<>>
        ELSE <<Pieces(html[open])[2]>>
             \o Concat([i \in 1..(last - open - 1) |-> Pieces(html[open + i])])
             \o SubSeq(Pieces(html[last]), 1, FirstIndex(Pieces(html[last]), "});", 1))

-----------------------------------------------------------------------------
(* Properties of the edit session *)

\* the i-th question has id q<i>
IdsInOrder(c) == \A i \in 1..Len(c.Questions) : c.Questions[i].ID = QID(i)

IdsDistinct(c) ==
    \A i, j \in 1..Len(c.Questions) : i # j => c.Questions[i].ID # c.Questions[j].ID

\* every conditionalOn names the id of a question at a strictly earlier position
RefsEarlier(c) ==
    \A i \in 1..Len(c.Questions) :
        c.Questions[i].ConditionalOn # <<>> =>
            \E j \in 1..(i - 1) : c.Questions[j].ID = c.Questions[i].ConditionalOn

\* the position after removing p of the question that was at position j # p
NewPos(j, p) == IF j < p THEN j ELSE j - 1

Removed == lastOp.op = "removeQuestion"

\* C2: removing the question at position p from a chapter with ids q1..qn
\* leaves n-1 questions with ids q1..q(n-1), and every surviving question
\* whose conditionalOn was qk with k > p has conditionalOn q(k-1) afterwards.
C2_Renumbering ==
    (Removed /\ IdsInOrder(before)) =>
        LET p == lastOp.idx
            n == Len(before.Questions)
        IN  /\ Len(ch.Questions) = n - 1
            /\ IdsInOrder(ch)
            /\ \A j \in (1..n) \ {p} : \A k \in (p + 1)..n :
                   before.Questions[j].ConditionalOn = QID(k) =>
                       ch.Questions[NewPos(j, p)].ConditionalOn = QID(k - 1)

\* q1 was removed from a 3-question chapter with q2 on q1 and q3 on q2
C2_Witness ==
    /\ Removed /\ lastOp.idx = 1
    /\ Len(before.Questions) = 3
    /\ IdsInOrder(before)
    /\ before.Questions[2].ConditionalOn = QID(1)
    /\ before.Questions[3].ConditionalOn = QID(2)
    /\ Len(ch.Questions) = 2
    /\ ch.Questions[2].ConditionalOn = QID(1)

\* C3: in every state of an edit session that started from a chapter with
\* the i-th id equal to q<i>, the i-th question has id q<i> and the ids are
\* pairwise distinct.
C3_IdInvariant == IdsInOrder(ch) /\ IdsDistinct(ch)

\* a question other than the last was removed after earlier modifications
C3_Witness ==
    /\ Removed /\ edits >= 2
    /\ lastOp.idx < Len(before.Questions)
    /\ Len(ch.Questions) >= 2

\* C4 (as claimed): if every conditionalOn named an earlier question before
\* remove-question, every conditionalOn names an earlier question after it.
C4_RefsEarlierKept == (Removed /\ RefsEarlier(before)) => RefsEarlier(ch)

\* C15: when remove-question, edit-question, edit-option or remove-option is
\* given an index that is no number or lies outside 1..count, the chapter is
\* exactly as it was before the operation.
C15_InvalidSelection == lastOp = Rejected => ch = before

\* an index was rejected in a chapter with questions, after a modification
C15_Witness ==
    /\ lastOp = Rejected
    /\ Len(ch.Questions) >= 2
    /\ edits >= 1

\* C16: append question on a chapter with n questions adds one question at
\* position n+1 with id q<n+1> and a title beginning Q<n+1>: and leaves the
\* existing questions and the rest of the chapter as they were; with an
\* empty title the chapter is unchanged.
C16_AppendQuestion ==
    /\ lastOp.op = "addQuestion" =>
          LET n == Len(before.Questions)
          IN  /\ Len(ch.Questions) = n + 1
              /\ ch.Questions[n + 1].ID = QID(n + 1)
              /\ SubSeq(ch.Questions[n + 1].Title, 1, Len(QPrefix(n + 1))) = QPrefix(n + 1)
              /\ SubSeq(ch.Questions, 1, n) = before.Questions
              /\ [ch EXCEPT !.Questions = before.Questions] = before
    /\ lastOp.op = "emptyTitle" => ch = before

\* a question was appended to a chapter that had questions
C16_Witness ==
    /\ lastOp.op = "addQuestion"
    /\ Len(before.Questions) >= 1
    /\ Len(ch.Questions) = Len(before.Questions) + 1

-----------------------------------------------------------------------------
(* Properties of the codec *)

\* the data-model invariants of a chapter: ids equal to position, titles
\* prefixed Q<N>: and followed by text, options not empty, conditionalOn
\* naming an earlier question
WellFormed(c) ==
    /\ IdsInOrder(c)
    /\ RefsEarlier(c)
    /\ \A i \in 1..Len(c.Questions) :
          /\ Len(c.Questions[i].Title) > Len(QPrefix(i))
          /\ SubSeq(c.Questions[i].Title, 1, Len(QPrefix(i))) = QPrefix(i)
          /\ c.Questions[i].Options # <<>>
          /\ c.Questions[i].Type \in Kinds

QuestionsEqual(c, d) ==
    /\ Len(d.Questions) = Len(c.Questions)
    /\ \A i \in 1..Len(c.Questions) :
          /\ d.Questions[i].ID = c.Questions[i].ID
          /\ d.Questions[i].Title = c.Questions[i].Title
          /\ d.Questions[i].Type = c.Questions[i].Type
          /\ d.Questions[i].Options = c.Questions[i].Options
          /\ d.Questions[i].Required = c.Questions[i].Required
          /\ d.Questions[i].ConditionalOn = c.Questions[i].ConditionalOn

LabelsEqual(c, d) ==
    /\ d.Title = c.Title
    /\ d.Heading = c.Heading
    /\ d.ChapterName = c.ChapterName
    /\ d.Conversation = c.Conversation
    /\ d.EmailLabel = c.EmailLabel
    /\ d.EmailPlaceH = c.EmailPlaceH
    /\ d.SubmitText = c.SubmitText
    /\ d.ResetText = c.ResetText
    /\ d.SuccessMsg = c.SuccessMsg
    /\ d.SummaryTitle = c.SummaryTitle

\* C1 (as claimed): decoding the encoding of a chapter that satisfies the
\* data-model invariants yields a chapter equal to it in every model field.
C1_RoundTrip ==
    (pc = "loaded" /\ WellFormed(ch)) => (QuestionsEqual(ch, dec) /\ LabelsEqual(ch, dec))

\* the option inputs of the document that carry name="id", in document order
InputsNamed(doc, id) ==
    Sorted({j \in 1..Len(doc) : /\ doc[j] \in {Tok.RadioInputTag, Tok.CheckboxInputTag}
                                /\ At(doc, j + 2) = NameValueAttr(id)})

\* the input whose tag starts at j carries the required marker
HasRequiredMarker(doc, j) == At(doc, FirstIndex(doc, Tok.Quote, j + 3) + 1) = Tok.RequiredAttr

\* C6 (as claimed): the first option input of a single-choice question carries
\* the required marker iff the question is required and not conditional; no
\* other option input, and no input of a multi-choice question, carries it.
C6_RequiredMarker ==
    pc = "saved" =>
        \A i \in 1..Len(ch.Questions) :
            LET q   == ch.Questions[i]
                ins == InputsNamed(content, q.ID)
            IN  /\ Len(ins) = Len(q.Options)
                /\ \A k \in 1..Len(ins) :
                      HasRequiredMarker(content, ins[k]) <=>
                          (q.Type = Radio /\ k = 1 /\ q.Required /\ q.ConditionalOn = <<>>)

\* the wrappers of the question blocks of the document, in document order
QuestionWrappers(doc) ==
    Sorted({j \in 1..FirstIndex(doc, Tok.ConvOpen, 1) : doc[j] \in {Tok.PlainWrapper, Tok.CondWrapperOpen}})

\* C7: the wrapper of a question carries the classes conditional-section
\* hidden and the id <id>-section iff its conditionalOn is not empty; the
\* wrapper of a question with empty conditionalOn is the plain one.
C7_ConditionalWrapper ==
    pc = "saved" =>
        LET ws == QuestionWrappers(content)
        IN  /\ Len(ws) = Len(ch.Questions)
            /\ \A i \in 1..Len(ws) :
                  IF ch.Questions[i].ConditionalOn # <<>>
                  THEN /\ content[ws[i]] = Tok.CondWrapperOpen
                       /\ content[ws[i] + 1] = SectionIdClose(ch.Questions[i].ID)
                  ELSE content[ws[i]] = Tok.PlainWrapper

\* a chapter with a conditional and an unconditional question was encoded
C7_Witness ==
    /\ pc = "saved"
    /\ \E i, j \in 1..Len(ch.Questions) :
          ch.Questions[i].ConditionalOn = <<>> /\ ch.Questions[j].ConditionalOn # <<>>

\* C8 (as claimed): the decoder gives every question of an encoded well-formed
\* chapter the kind it was encoded with and its (value, label) pairs in
\* order, at every position and with or without conditional questions.
C8_KindAndOptions ==
    (pc = "loaded" /\ WellFormed(ch)) =>
        /\ Len(dec.Questions) = Len(ch.Questions)
        /\ \A i \in 1..Len(ch.Questions) :
              /\ dec.Questions[i].Type = ch.Questions[i].Type
              /\ dec.Questions[i].Options = ch.Questions[i].Options

HasSpecial(s) == \E i \in 1..Len(s) : s[i] \in {"<", ">", "&", "\""}

\* C9 (as claimed): when a question title of a well-formed chapter contains
\* <, >, & or ", the decoded chapter has as many questions and the decoded
\* title of that question equals the original title.
C9_TitleEscaping ==
    (pc = "loaded" /\ WellFormed(ch)) =>
        \A i \in 1..Len(ch.Questions) :
            HasSpecial(ch.Questions[i].Title) =>
                /\ Len(dec.Questions) = Len(ch.Questions)
                /\ dec.Questions[i].Title = ch.Questions[i].Title

\* the markup part of a document: what precedes the first script
MarkupEnd(doc) ==
    LET ss == {j \in 1..Len(doc) : doc[j] \in {Tok.CondScriptOpen, Tok.MetaOpen}}
    IN  IF ss = {} THEN Len(doc) ELSE (CHOOSE j \in ss : \A o \in ss : j <= o) - 1

\* the positions where an attribute value starts
AttrValueStarts(doc) ==
    {j + 3 : j \in {k \in 1..Len(doc) : doc[k] \in {Tok.RadioInputTag, Tok.CheckboxInputTag}}}
    \cup {j + 1 : j \in {k \in 1..Len(doc) : doc[k] \in {Tok.TextareaOpen, Tok.EmailInputOpen}}}

\* C10 (as claimed): in the markup of the output no raw <, > or & taken from
\* a field occurs (an ampersand only starts an entity), and no attribute
\* value holds a raw quote (the first quote after its start closes it).
C10_EscapedOutput ==
    pc = "saved" =>
        /\ \A i \in 1..MarkupEnd(content) :
              /\ content[i] \notin {"<", ">"}
              /\ content[i] = "&" => At(content, i + 1) \in {"amp;", "lt;", "gt;", "#34;", "#39;"}
        /\ \A a \in AttrValueStarts(content) :
              At(content, FirstIndex(content, Tok.Quote, a) + 1)
                  \in {Tok.RequiredAttr, Tok.InputEndLabelOpen, Tok.TextareaClose, Tok.EmailInputClose}

-----------------------------------------------------------------------------
(* Properties of the rendered page *)

\* the conditional questions that name question i as their parent
ChildrenOf(c, i) == {j \in 1..Len(c.Questions) : c.Questions[j].ConditionalOn = c.Questions[i].ID}

\* C5 (as claimed): after a change of a parent's control to a value other
\* than the affirmative token, every child section it hid has all of its own
\* inputs unchecked.
C5_HiddenCleared ==
    (pc = "page" /\ lastOp.op = "change"
       /\ ch.Questions[lastOp.idx].Options[lastOp.opt].Value # yesValue(ch.Language)) =>
        \A j \in ChildrenOf(ch, lastOp.idx) :
            j \in hidden => \A e \in checked : e[1] # j

-----------------------------------------------------------------------------
(* Properties of the metadata script *)

\* a double-quoted JavaScript string literal read from position i, the first
\* position after its opening quote: whether it is a literal, the text it
\* denotes and the position of the quote that ends it.  A backslash makes the
\* next character part of the text; \x without digits and a line break are
\* not allowed in a literal.
RECURSIVE JsLiteral(_, _, _)
JsLiteral(doc, i, acc) ==
    IF i > Len(doc) \/ doc[i] \notin TextAtoms \/ doc[i] = "\n"
    THEN [valid |-> FALSE, text |-> acc, end |-> 0]
    ELSE IF doc[i] = Tok.Quote THEN [valid |-> TRUE, text |-> acc, end |-> i]
    ELSE IF doc[i] = "\\"
         THEN IF i + 1 > Len(doc) \/ doc[i + 1] \notin TextAtoms \/ doc[i + 1] \in {"x", "\n"}
              THEN [valid |-> FALSE, text |-> acc, end |-> 0]
              ELSE JsLiteral(doc, i + 2, Append(acc, doc[i + 1]))
         ELSE JsLiteral(doc, i + 1, Append(acc, doc[i]))

\* the literal that follows the first occurrence of the token open denotes
\* text and ends at the quote the encoder wrote after the text
LiteralDenotes(doc, open, text) ==
    LET start == FirstIndex(doc, open, 1) + 1
        lit   == JsLiteral(doc, start, <<>>)
    IN  /\ start > 1
        /\ lit.valid
        /\ lit.text = text
        /\ lit.end = start + Len(JsEscape(text))

\* C11 (as claimed): each text interpolated into the metadata script (the
\* question titles, the conversation label, the chapter name) is emitted as
\* a literal that ends at its own closing quote and denotes the text.
C11_LiteralSafe ==
    pc = "saved" =>
        /\ \A i \in 1..Len(ch.Questions) :
              LiteralDenotes(content, EntryOpen(ch.Questions[i].ID), ch.Questions[i].Title)
        /\ ch.Conversation.Label # <<>> =>
              LiteralDenotes(content, EntryOpen(<<"conversation">>), ch.Conversation.Label)
        /\ LiteralDenotes(content, Tok.MetaMid, ch.ChapterName)

\* the elements of the metadata object: what stands between the opening of
\* window.surveyQuestions and its closing brace
MetaObject(doc) ==
    SubSeq(doc, FirstIndex(doc, Tok.MetaOpen, 1) + 1, FirstIndex(doc, Tok.MetaMid, 1) - 1)

\* an element of the metadata object that opens an entry (key: ")
IsEntryOpen(e) == e \notin TextAtoms /\ e # Tok.Comma

\* the keys of the entries, in order, as their opening tokens
EntryKeys(obj) == SelectSeq(obj, IsEntryOpen)

\* every entry but the first is preceded by exactly one comma, the first by
\* none, and no comma follows the last entry
CommasSeparate(obj) ==
    /\ \A j \in 1..Len(obj) :
          IsEntryOpen(obj[j]) =>
              IF \E k \in 1..(j - 1) : IsEntryOpen(obj[k])
              THEN At(obj, j - 1) = Tok.Comma /\ At(obj, j - 2) # Tok.Comma
              ELSE \A k \in 1..(j - 1) : obj[k] # Tok.Comma
    /\ Cardinality({j \in 1..Len(obj) : obj[j] = Tok.Comma}) + 1 = Len(EntryKeys(obj))

\* C12 (as claimed): the metadata object has one entry per question id, in
\* questions order, then one entry under the key conversation, whether or not
\* the conversation label is empty, and the entries are separated by exactly
\* one comma with none after the last.
C12_MetaEntries ==
    pc = "saved" =>
        LET obj == MetaObject(content)
        IN  /\ EntryKeys(obj) = [i \in 1..Len(ch.Questions) |-> EntryOpen(ch.Questions[i].ID)]
                                \o <<EntryOpen(<<"conversation">>)>>
            /\ CommasSeparate(obj)

-----------------------------------------------------------------------------
(* Properties of decoding a file that lacks elements *)

\* C13 (as claimed): decoding does not fail, and every field with a language
\* default whose element the document lacks holds the default: the heading,
\* the email label and placeholder, the submit and reset texts, the success
\* message, the summary title, the conversation title and placeholder; the
\* chapter name falls back to the chapter label and the number.
C13_DefaultsSubstituted ==
    pc # "failed" /\
    (pc = "parsed" =>
        LET d == LanguageDefaults(ch.Language)
        IN  /\ Lacks(content, "Heading") => dec.Heading = d.Heading
            /\ Lacks(content, "EmailLabel") => dec.EmailLabel = d.EmailLabel
            /\ Lacks(content, "EmailPlaceH") => dec.EmailPlaceH = d.EmailPlaceH
            /\ Lacks(content, "SubmitText") => dec.SubmitText = d.SubmitText
            /\ Lacks(content, "ResetText") => dec.ResetText = d.ResetText
            /\ Lacks(content, "SuccessMsg") => dec.SuccessMsg = d.SuccessMsg
            /\ Lacks(content, "SummaryTitle") => dec.SummaryTitle = d.SummaryTitle
            /\ Lacks(content, "Conversation") =>
                  /\ dec.Conversation.Title = d.Conversation.Title
                  /\ dec.Conversation.Placeholder = d.Conversation.Placeholder
            /\ Lacks(content, "ChapterName") =>
                  dec.ChapterName = ChapterLabel(ch.Language) \o <<" ">> \o Digits(ch.Number))

-----------------------------------------------------------------------------
(* Properties of the batch decode *)

\* the chapter number a file name encodes: -1 when it holds no digits
NameNumber(name) == Atoi(extractChapterNumber(name))

\* the names of the listing that satisfy the test, in order
NamesWhere(fs, Test(_)) ==
    LET Keep(f) == Test(f.name)
        kept == SelectSeq(fs, Keep)
    IN  [i \in 1..Len(kept) |-> kept[i].name]

NamesPositive(name) == NameNumber(name) >= 1
NamesNotPositive(name) == NameNumber(name) < 1

\* C14 (as claimed): when the batch is over, the files whose names encode no
\* positive chapter number (no digits, or the number 0) are the reported ones
\* and are not in the result, every other file is decoded and in the result,
\* and every chapter of the result has a number >= 1.
C14_BatchNaming ==
    pc = "returned" =>
        /\ batch.reported = NamesWhere(files, NamesNotPositive)
        /\ [i \in 1..Len(batch.chapters) |-> batch.chapters[i].Number]
              = [i \in 1..Len(NamesWhere(files, NamesPositive)) |->
                    NameNumber(NamesWhere(files, NamesPositive)[i])]
        /\ \A i \in 1..Len(batch.chapters) : batch.chapters[i].Number >= 1

-----------------------------------------------------------------------------
(* Properties of the editors and the storage *)

\* the path saveChapter writes the chapter to
PathOf(c) == chapterFileName(c.Number, c.Language)

\* the content of the file of the chapter, <<>> when the directory has none
Stored(c) == IF FileAt(files, PathOf(c)) = 0 THEN NoDoc ELSE files[FileAt(files, PathOf(c))].content

\* C17: the directory changes only in a step of the save action, and that
\* step writes the encoding of the session's model at the path made of
\* its number and language; while no session has saved, the directory is the
\* one the sessions loaded from, whatever they edited and whether they left.
C17_NoAutosave ==
    /\ []((\A s \in Editors : ~sessions[s].saved) => files = StoreFiles)
    /\ [][files' # files =>
            \E s \in Editors :
               /\ lastOp' = Op("save", s)
               /\ sessions[s].pc = "editing"
               /\ files' = WriteFile(files, PathOf(sessions[s].ch), generateChapterHTML(sessions[s].ch))]_vars

\* both sessions edited and left, neither saved, and the directory is as loaded
C17_Witness ==
    /\ pc = "store"
    /\ \A s \in Editors : sessions[s].pc = "left" /\ sessions[s].n >= 1 /\ ~sessions[s].saved
    /\ \E s \in Editors : generateChapterHTML(sessions[s].ch) # StoreFiles[1].content
    /\ files = StoreFiles

-----------------------------------------------------------------------------
(* Properties of the style block and the conditional script *)

\* the positions of a token in a document
Positions(doc, tok) == {i \in 1..Len(doc) : doc[i] = tok}

\* the questions of the chapter that have a conditionalOn, in order
ConditionalQuestions(c) == SelectSeq(c.Questions, LAMBDA q : q.ConditionalOn # <<>>)

\* C19: the saved document has the style block exactly when some question
\* of the chapter is multi-choice, whatever its conditional questions and
\* its HasCustomCSS flag are; the block is single and stands in the head.
C19_StyleBlock ==
    pc \in {"saved", "loaded"} =>
        LET multi  == \E i \in 1..Len(ch.Questions) : ch.Questions[i].Type = Checkbox
            styles == Positions(content, Tok.StyleBlock)
        IN  /\ (styles # {}) <=> multi
            /\ Cardinality(styles) <= 1
            /\ \A i \in styles : \A b \in Positions(content, Tok.BodyOpen) :
                  i < b /\ content[i - 1] = Tok.LinkCss

\* a chapter with a multi-choice question, no conditional question and no
\* flag has been saved, and its document has the block
C19_Witness ==
    /\ pc = "saved"
    /\ ~ch.HasCustomCSS
    /\ ConditionalQuestions(ch) = <<>>
    /\ \E i \in 1..Len(ch.Questions) : ch.Questions[i].Type = Checkbox
    /\ Positions(content, Tok.StyleBlock) # {}

\* C20: the saved document has the conditional script exactly when some
\* question has a conditionalOn; the script then holds, in the order of the
\* questions, one listener per conditional question: it is registered on the
\* inputs named by the question's conditionalOn and shows the section of the
\* question's id when the value is Si in a Spanish and Yes in an English
\* chapter; the metadata object follows the script.
C20_ConditionalWiring ==
    pc \in {"saved", "loaded"} =>
        LET cq    == ConditionalQuestions(ch)
            opens == Positions(content, Tok.CondScriptOpen)
            yes   == IF ch.Language = English THEN <<"Yes">> ELSE <<"Si">>
        IN  /\ (opens # {}) <=> (cq # <<>>)
            /\ Cardinality(opens) <= 1
            /\ \A o \in opens :
                  /\ \A k \in 1..Len(cq) :
                        /\ content[o + 3 * k - 2] = ListenerDecl(cq[k].ConditionalOn, cq[k].ID)
                        /\ content[o + 3 * k] = ListenerBody(cq[k].ConditionalOn, cq[k].ID, yes)
                  /\ content[o + 3 * Len(cq) + 1] = Tok.CondScriptClose
                  /\ content[o + 3 * Len(cq) + 2] = Tok.MetaOpen
            /\ opens = {} => Positions(content, Tok.CondScriptClose) = {}

\* an English chapter with two conditional questions has been saved
C20_Witness ==
    /\ pc = "saved"
    /\ ch.Language = English
    /\ Len(ConditionalQuestions(ch)) >= 2
    /\ Positions(content, Tok.CondScriptOpen) # {}

-----------------------------------------------------------------------------
(* Properties of the decoded conditional references *)

\* the number in an id q<N>
IdNumber(id) == Atoi(Tail(id))

\* the document has a wrapper with the classes conditional-section hidden
\* and the id <id>-section
HasConditionalWrapper(doc, id) ==
    \E i \in 1..(Len(doc) - 1) : doc[i] = Tok.CondWrapperOpen /\ doc[i + 1] = SectionIdClose(id)

\* C21: a question q<N> of the decoded chapter has a conditionalOn exactly
\* when the document has the conditional wrapper q<N>-section, and the
\* conditionalOn is then q<N-1>, also for N = 1 and whatever parent the
\* script of the document wires.
C21_ConditionalDetection ==
    pc = "loaded" =>
        \A k \in 1..Len(dec.Questions) :
            LET q == dec.Questions[k]
            IN  /\ (q.ConditionalOn # <<>>) <=> HasConditionalWrapper(content, q.ID)
                /\ HasConditionalWrapper(content, q.ID) => q.ConditionalOn = QID(IdNumber(q.ID) - 1)

-----------------------------------------------------------------------------
(* Properties of removing questions from a loaded chapter *)

\* every title is Q<N>: <text> with N the position of the question
ConventionalTitles(c) ==
    \A i \in 1..Len(c.Questions) :
        /\ Len(c.Questions[i].Title) >= Len(QPrefix(i))
        /\ SubSeq(c.Questions[i].Title, 1, Len(QPrefix(i))) = QPrefix(i)

\* the <text> part of the conventional title of the i-th question
TitleText(c, i) == SubSeq(c.Questions[i].Title, Len(QPrefix(i)) + 1, Len(c.Questions[i].Title))

\* C22: after removing the question at position p of a chapter whose titles
\* are Q<N>: <text> with N the position, the question now at position i has
\* the title Q<i>: <text> with the text it had, and the titles of the
\* questions before p are as they were.
C22_TitleLockstep ==
    (Removed /\ ConventionalTitles(before)) =>
        LET p == lastOp.idx
        IN  \A j \in (1..Len(before.Questions)) \ {p} :
               /\ ch.Questions[NewPos(j, p)].Title = QPrefix(NewPos(j, p)) \o TitleText(before, j)
               /\ j < p => ch.Questions[j].Title = before.Questions[j].Title

\* the second of three questions with different texts was removed
C22_Witness ==
    /\ Removed /\ lastOp.idx = 2
    /\ Len(before.Questions) = 3
    /\ ConventionalTitles(before)
    /\ ch.Questions[1].Title = QPrefix(1) \o <<"x">>
    /\ ch.Questions[2].Title = QPrefix(2) \o <<"z">>

\* C25: when the question at position p of a chapter with ids q1..qn and
\* references to earlier questions is removed, a surviving question whose
\* conditionalOn was qp still has the conditionalOn qp afterwards.
C25_OrphanKept ==
    (Removed /\ IdsInOrder(before) /\ RefsEarlier(before)) =>
        LET p == lastOp.idx
        IN  \A j \in (1..Len(before.Questions)) \ {p} :
               before.Questions[j].ConditionalOn = QID(p) =>
                   ch.Questions[NewPos(j, p)].ConditionalOn = QID(p)

\* q1 was removed from a chapter whose q3 depended on q1: the question is
\* now q2 and depends on q1, the former q2
C25_Witness ==
    /\ Removed /\ lastOp.idx = 1
    /\ IdsInOrder(before) /\ RefsEarlier(before)
    /\ Len(before.Questions) = 3
    /\ before.Questions[3].ConditionalOn = QID(1)
    /\ ch.Questions[2].ID = QID(2)
    /\ ch.Questions[2].ConditionalOn = QID(1)
    /\ ch.Questions[1].Title = QPrefix(1) \o TitleText(before, 2)

\* C26: in an edit session that started from a chapter whose questions all
\* have an option, every question of the chapter has at least one option.
C26_OptionsNonEmpty ==
    \A i \in 1..Len(ch.Questions) : Len(ch.Questions[i].Options) >= 1

-----------------------------------------------------------------------------
(* Properties of the two encoders *)

\* the ids of the wrappers with the classes conditional-section hidden, in order
ConditionalWrappers(doc) ==
    LET ws == Sorted(Positions(doc, Tok.CondWrapperOpen))
    IN  [k \in 1..Len(ws) |-> At(doc, ws[k] + 1)]

\* the id attributes of the option inputs that carry the required marker
RequiredInputs(doc) ==
    {At(doc, j + 1) : j \in {i \in 1..Len(doc) : /\ doc[i] \in {Tok.RadioInputTag, Tok.CheckboxInputTag}
                                                 /\ HasRequiredMarker(doc, i)}}

StylesAgree(go, js) == (Positions(go, Tok.StyleBlock) # {}) <=> (Positions(js, Tok.StyleBlock) # {})
WrappersAgree(go, js) == ConditionalWrappers(go) = ConditionalWrappers(js)
RequiredAgree(go, js) == RequiredInputs(go) = RequiredInputs(js)

\* C23: the page of generateChapterHTML and the page of generateChapterHtml
\* for the same chapter agree on the presence of the style block, on the
\* wrappers that carry the conditional classes and the id <id>-section, and
\* on the option inputs that carry the required marker.
C23_EncodersAgree ==
    pc = "saved" =>
        LET js == generateChapterHtml(ChapterData(ch))
        IN  /\ StylesAgree(content, js)
            /\ WrappersAgree(content, js)
            /\ RequiredAgree(content, js)

-----------------------------------------------------------------------------
(* Properties of the conditional script read by the server *)

\* the wiring block of the page: from the comment to the closing of the handler
WiringBlock(c) ==
    LET text == Concat([i \in 1..Len(generateConditionalJS(c)) |-> Pieces(generateConditionalJS(c)[i])])
    IN  SubSeq(text, 2, Len(text) - 1)

\* C24: for a page of generateChapterHTML with a conditional script,
\* extractConditionalScript returns the whole wiring block, from the comment
\* to the closing of the DOMContentLoaded handler, so the script
\* generateChapterHtml writes again has every listener in full.
C24_ScriptRoundTrip ==
    (pc = "saved" /\ Positions(content, Tok.CondScriptOpen) # {}) =>
        \E doc \in {content} : extractConditionalScript(doc) = WiringBlock(ch)

-----------------------------------------------------------------------------
(* Properties of the names the conditional script declares *)

\* the listeners whose declarations the document holds, in document order
DeclaredListeners(doc) ==
    LET decl(j) == {pr \in (1..(MaxQ + 1)) \X (1..(MaxQ + 1)) : doc[j] = ListenerDecl(QID(pr[1]), QID(pr[2]))}
        ds == Sorted({j \in 1..Len(doc) : decl(j) # {}})
    IN  [k \in 1..Len(ds) |-> CHOOSE pr \in decl(ds[k]) : TRUE]

\* the names the declarations of the document declare with const, in order
DeclaredIn(doc) ==
    Concat([k \in 1..Len(DeclaredListeners(doc)) |->
               <<QID(DeclaredListeners(doc)[k][1]) \o <<"Radios">>,
                 QID(DeclaredListeners(doc)[k][2]) \o <<"Section">>,
                 QID(DeclaredListeners(doc)[k][2]) \o <<"Inputs">>>>])

\* C27: the script of the page of a chapter with ids q1..qn and references
\* to earlier questions has one declaration per conditional question and
\* declares no name twice within the handler, also when questions share a
\* parent.
C27_ScriptValid ==
    (pc = "saved" /\ IdsInOrder(ch) /\ RefsEarlier(ch)) =>
        \E doc \in {content} :
            LET names == DeclaredIn(doc)
            IN  /\ Len(names) = 3 * Len(ConditionalQuestions(ch))
                /\ \A a, b \in 1..Len(names) : a # b => names[a] # names[b]

-----------------------------------------------------------------------------
(* Properties of the decoded required flag *)

\* C28: in the chapter decoded from the page of a well-formed chapter, a
\* question none of whose own inputs carries the required marker has
\* Required = FALSE and a question whose first input carries it has
\* Required = TRUE, at every position, the last question included.
C28_RequiredPerQuestion ==
    (pc = "loaded" /\ WellFormed(ch) /\ Len(dec.Questions) = Len(ch.Questions)) =>
        \A i \in 1..Len(ch.Questions) :
            LET ins == InputsNamed(content, ch.Questions[i].ID)
            IN  /\ (\A k \in 1..Len(ins) : ~HasRequiredMarker(content, ins[k]))
                      => ~dec.Questions[i].Required
                /\ (Len(ins) >= 1 /\ HasRequiredMarker(content, ins[1]))
                      => dec.Questions[i].Required

-----------------------------------------------------------------------------
(* Properties of renumbering a chapter whose ids do not match positions *)

\* C29: when a question of a chapter with pairwise distinct ids is removed,
\* every conditionalOn that referenced a surviving question holds the new
\* id of that question afterwards.
C29_SimultaneousSubstitution ==
    (Removed /\ IdsDistinct(before)) =>
        LET p == lastOp.idx
        IN  \A j, t \in (1..Len(before.Questions)) \ {p} :
               before.Questions[j].ConditionalOn = before.Questions[t].ID =>
                   ch.Questions[NewPos(j, p)].ConditionalOn = ch.Questions[NewPos(t, p)].ID

-----------------------------------------------------------------------------
(* Properties of the title prefix *)

\* the title begins with Q, one or more digits and a colon
HasNumberPrefix(title) ==
    /\ Len(title) >= 3
    /\ title[1] = "Q"
    /\ DigitsEnd(title, 2) >= 2
    /\ At(title, DigitsEnd(title, 2) + 1) = ":"

\* C30: the renumbering of removeQuestion replaces the number of a title
\* that begins with Q<digits>: and keeps everything from the colon on; it
\* leaves every other title as it was.
C30_PrefixOnly ==
    Removed =>
        LET p == lastOp.idx
        IN  \A j \in (1..Len(before.Questions)) \ {p} :
               LET old == before.Questions[j].Title
                   new == ch.Questions[NewPos(j, p)].Title
               IN  IF HasNumberPrefix(old)
                   THEN new = <<"Q">> \o Digits(NewPos(j, p))
                                  \o SubSeq(old, DigitsEnd(old, 2) + 1, Len(old))
                   ELSE new = old

====
